---- MODULE Spec2Model ----
(***************************************************************************)
(* A model of buteo's augmentation engine (buteo/ai/augmentation_funcs.py): *)
(* the randomly gated transforms applied to a (feature, label) pair.        *)
(*                                                                          *)
(* Arrays are records [dtype, shape, data]: shape is the numpy shape        *)
(* <<d0, d1, d2>> and data maps every index <<i, j, k>> (0-based) to the    *)
(* element's value in fixed-point units of 1/Scale.  An integer dtype holds *)
(* multiples of Scale only.  Probabilities and uniform draws are multiples  *)
(* of 1/Den.  Every random draw of a transform is a parameter of the        *)
(* operator that models it; the actions choose the draws with \E.           *)
(***************************************************************************)
EXTENDS Integers, Sequences, FiniteSets, TLC

\* ------------------------------------------------------------------ bounds
MaxH == 2
MaxW == 2
MaxC == 2
Den == 2
MaxSteps == 2
MaxRot == 4
CutMax == 3
\* The largest RAM limit asked for, in MB; the largest band count and the
\* longest list of bands asked for.
MaxMb == 40
MaxBands == 3
MaxList == 2
\* The epochs a training runs; the losses are 0 .. MaxLoss times LossUnit (in
\* units of the callback's epsilon); the finite metric values are
\* -MaxMetric .. MaxMetric.
MaxEpochs == 6
MaxLoss == 2
LossUnit == 1000
MaxBestEpochs == 3
MaxMetric == 2

\* ------------------------------------------------------- numeric foundation
\* One unit of the fixed-point grid is 1/Scale: a power of two, so that every
\* grid value below 2^24 units is exactly a float32.
Scale == 2^10

Abs(n) == IF n < 0 THEN -n ELSE n
Min2(a, b) == IF a < b THEN a ELSE b
Max2(a, b) == IF a > b THEN a ELSE b

\* Division truncating toward zero (a C cast, numpy's astype to an integer).
TruncDiv(a, b) == IF a >= 0 THEN a \div b ELSE -((-a) \div b)

\* a * b / d without forming a product beyond 31 bits (floor of the exact value).
MulDiv(a, b, d) == (a \div d) * b + ((a % d) * b) \div d

\* The spacing of float32 values around n units (24 significant bits).
F32Step(n) ==
    IF Abs(n) < 2^24 THEN 1
    ELSE IF Abs(n) < 2^25 THEN 2
    ELSE IF Abs(n) < 2^26 THEN 4
    ELSE IF Abs(n) < 2^27 THEN 8
    ELSE IF Abs(n) < 2^28 THEN 16
    ELSE IF Abs(n) < 2^29 THEN 32
    ELSE IF Abs(n) < 2^30 THEN 64
    ELSE 128

\* np.float32(v): round to nearest, ties to even.
F32Round(n) ==
    LET q == F32Step(n)
        a == Abs(n)
        r == a % q
        down == a - r
        m == IF 2 * r < q THEN down
             ELSE IF 2 * r > q THEN down + q
             ELSE IF (down \div q) % 2 = 0 THEN down ELSE down + q
    IN  IF n < 0 THEN -m ELSE m

\* ------------------------------------------------------------------ dtypes
IntDtypes == {"uint8"}
FloatDtypes == {"float32", "float64"}
DtypeMin(dt) == 0
DtypeMax(dt) == 255
DtypeBits(dt) == 8

InRange(v, dt) == DtypeMin(dt) * Scale <= v /\ v <= DtypeMax(dt) * Scale

\* ------------------------------------------------------------------ arrays
Idx(sh) == (0 .. sh[1] - 1) \X (0 .. sh[2] - 1) \X (0 .. sh[3] - 1)
Flat(i, sh) == (i[1] * sh[2] + i[2]) * sh[3] + i[3]
NoneArr == [dtype |-> "none", shape |-> <<0, 0, 0>>, data |-> <<>>]
IsNone(A) == A.dtype = "none"

\* The layout adapter: which axis is which under channel_last.
Height(A, cl) == IF cl THEN A.shape[1] ELSE A.shape[2]
Width(A, cl) == IF cl THEN A.shape[2] ELSE A.shape[3]
Channels(A, cl) == IF cl THEN A.shape[3] ELSE A.shape[1]
ChanOf(i, cl) == IF cl THEN i[3] ELSE i[1]
RowOf(i, cl) == IF cl THEN i[1] ELSE i[2]
ColOf(i, cl) == IF cl THEN i[2] ELSE i[3]
At(cl, r, c, ch) == IF cl THEN <<r, c, ch>> ELSE <<ch, r, c>>
Spatial(A, cl) == <<Height(A, cl), Width(A, cl)>>

\* arr.astype(np.float32)
AsFloat32(A) ==
    [dtype |-> "float32", shape |-> A.shape,
     data |-> [i \in Idx(A.shape) |-> F32Round(A.data[i])]]

\* _fit_data_to_dtype(arr, dtype): clip to the integer range, then truncate;
\* a floating target gets the representational cast only.
FitValue(v, dt) ==
    IF dt \in IntDtypes
    THEN LET c == Max2(DtypeMin(dt) * Scale, Min2(v, DtypeMax(dt) * Scale))
         IN  TruncDiv(c, Scale) * Scale
    ELSE IF dt = "float32" THEN F32Round(v) ELSE v

_fit_data_to_dtype(A, dt) ==
    [dtype |-> dt, shape |-> A.shape,
     data |-> [i \in Idx(A.shape) |-> FitValue(A.data[i], dt)]]

\* A float stored into an integer array element with no clipping (a C cast):
\* in range it truncates; out of range the cast is undefined and the build
\* either wraps modulo 2^bits or saturates.
CastOutcomes(v, dt) ==
    IF dt \in IntDtypes
    THEN IF InRange(v, dt)
         THEN {TruncDiv(v, Scale) * Scale}
         ELSE {(TruncDiv(v, Scale) % (2^DtypeBits(dt))) * Scale, FitValue(v, dt)}
    ELSE {FitValue(v, dt)}

\* rotate_arr(arr, k, channel_last): k quarter turns counter-clockwise in the
\* two spatial axes (np.rot90), the channel axis untouched.
Rot90(A, cl) ==
    LET h == Height(A, cl)
        w == Width(A, cl)
        c == Channels(A, cl)
        sh == IF cl THEN <<w, h, c>> ELSE <<c, w, h>>
    IN  [dtype |-> A.dtype, shape |-> sh,
         data |-> [i \in Idx(sh) |->
                     A.data[At(cl, ColOf(i, cl), w - 1 - RowOf(i, cl), ChanOf(i, cl))]]]

rotate_arr(A, k, cl) ==
    IF k % 4 = 0 THEN A
    ELSE IF k % 4 = 1 THEN Rot90(A, cl)
    ELSE IF k % 4 = 2 THEN Rot90(Rot90(A, cl), cl)
    ELSE Rot90(Rot90(Rot90(A, cl), cl), cl)

\* mirror_arr(arr, k, channel_last): 1 flips left-right, 2 flips up-down, 3 both.
mirror_arr(A, k, cl) ==
    LET h == Height(A, cl)
        w == Width(A, cl)
    IN  [dtype |-> A.dtype, shape |-> A.shape,
         data |-> [i \in Idx(A.shape) |->
                     A.data[At(cl,
                               IF k \in {2, 3} THEN h - 1 - RowOf(i, cl) ELSE RowOf(i, cl),
                               IF k \in {1, 3} THEN w - 1 - ColOf(i, cl) ELSE ColOf(i, cl),
                               ChanOf(i, cl))]]]

\* ------------------------------------------------------------ chance gate
\* Variant of the gate whose comparison is >=: a draw equal to the chance
\* takes the early return.
GateFailsAtChance(u, chance) == u >= chance

\* np.random.rand() > chance: the transform returns its inputs.
Chances == 0 .. Den
Draws == 0 .. Den - 1
GateFails(u, chance) == u > chance

\* What a call returns: the pair, the branch it took ("noop": a return of the
\* inputs before any work, "body": the transform's body ran), whether it raised,
\* whether an unclipped store of an out-of-range value wrapped, which of its
\* input arrays ("X", "y") it wrote into, and the calls it made to the random
\* stream, in order ("gate": the np.random.rand() of a chance gate).
Res(Xo, yo, br) == [X |-> Xo, y |-> yo, branch |-> br, err |-> "none", wrapped |-> FALSE, wrote |-> {}, draws |-> <<"gate">>]
Raise(Xin, yin, e) == [X |-> Xin, y |-> yin, branch |-> "body", err |-> e, wrapped |-> FALSE, wrote |-> {}, draws |-> <<"gate">>]

\* The result r of a call whose body made the draws ds after its gate.
Drew(r, ds) == [r EXCEPT !.draws = <<"gate">> \o ds]
Rep(n, d) == [j \in 1 .. n |-> d]

\* k: Optional[int] = None
KNone == -1

\* Variant of the rotation that turns the feature and forgets the label.
augmentation_rotation_feature_only(Xa, ya, chance, k, cl, u, rk) ==
    IF u > chance \/ k = 0 THEN Res(Xa, ya, "noop")
    ELSE LET random_k == IF k = KNone THEN rk ELSE k
         IN  Res(rotate_arr(Xa, random_k, cl), ya, "body")

\* Variant of the rotation that turns the label by its own draw rk, not by
\* the k the feature is turned by.
augmentation_rotation_label_own_k(Xa, ya, chance, k, cl, u, rk) ==
    IF u > chance \/ k = 0 THEN Res(Xa, ya, "noop")
    ELSE LET random_k == IF k = KNone THEN rk ELSE k
         IN  IF IsNone(ya) THEN Res(rotate_arr(Xa, random_k, cl), ya, "body")
             ELSE Res(rotate_arr(Xa, random_k, cl), rotate_arr(ya, rk, cl), "body")

augmentation_rotation(Xa, ya, chance, k, cl, u, rk) ==
    IF GateFails(u, chance) \/ k = 0 THEN Res(Xa, ya, "noop")
    ELSE LET random_k == IF k = KNone THEN rk ELSE k
             ds == IF k = KNone THEN <<"randint">> ELSE <<>>
         IN  IF IsNone(ya) THEN Drew(Res(rotate_arr(Xa, random_k, cl), ya, "body"), ds)
             ELSE Drew(Res(rotate_arr(Xa, random_k, cl), rotate_arr(ya, random_k, cl), "body"), ds)

\* Variant of the mirror that flips the label by the draw rk, not by the k
\* the feature is flipped by.
augmentation_mirror_label_own_k(Xa, ya, chance, k, cl, u, rk) ==
    IF u > chance \/ k = 0 THEN Res(Xa, ya, "noop")
    ELSE LET random_k == IF k = KNone THEN rk ELSE k
         IN  Res(mirror_arr(Xa, random_k, cl),
                 IF IsNone(ya) THEN ya ELSE mirror_arr(ya, rk, cl), "body")

\* Variant of the mirror that flips the feature and forgets the label.
augmentation_mirror_feature_only(Xa, ya, chance, k, cl, u, rk) ==
    IF u > chance \/ k = 0 THEN Res(Xa, ya, "noop")
    ELSE LET random_k == IF k = KNone THEN rk ELSE k
         IN  Res(mirror_arr(Xa, random_k, cl), ya, "body")

augmentation_mirror(Xa, ya, chance, k, cl, u, rk) ==
    IF GateFails(u, chance) \/ k = 0 THEN Res(Xa, ya, "noop")
    ELSE LET random_k == IF k = KNone THEN rk ELSE k
         IN  Drew(Res(mirror_arr(Xa, random_k, cl),
                      IF IsNone(ya) THEN ya ELSE mirror_arr(ya, random_k, cl), "body"),
                  IF k = KNone THEN <<"randint">> ELSE <<>>)

\* -------------------------------------------------- photometric transforms
\* A probability or uniform draw n/Den as a fixed-point value.
Frac(n) == (n * Scale) \div Den

\* np.random.uniform(lo, hi) for the draw t/Den: lo + (hi - lo) * t/Den.
Uniform(lo, hi, t) == lo + ((hi - lo) * t) \div Den

RECURSIVE SumData(_, _)
SumData(A, S) ==
    IF S = {} THEN 0
    ELSE LET i == CHOOSE j \in S : TRUE
         IN  A.data[i] + SumData(A, S \ {i})

\* Families of per-element draws: a standard-normal draw per element (in units
\* of the standard deviation) and a uniform draw per element.
NormalPatterns == {"zero", "pos", "alt"}
NormalDraw(p, i, sh) ==
    IF p = "zero" THEN 0
    ELSE IF p = "pos" THEN Scale
    ELSE IF Flat(i, sh) % 2 = 0 THEN Scale ELSE -Scale

MaskPatterns == {"lo", "hi", "alt"}
MaskDraw(p, i, sh) ==
    IF p = "lo" THEN 0
    ELSE IF p = "hi" THEN Den - 1
    ELSE IF Flat(i, sh) % 2 = 0 THEN 0 ELSE Den - 1

augmentation_noise(Xa, ya, chance, max_amount, additive, cl, u, ua, npat) ==
    IF GateFails(u, chance) THEN Res(Xa, ya, "noop")
    ELSE LET amount == MulDiv(Frac(ua), Frac(max_amount), Scale)
             nz(i) == MulDiv(NormalDraw(npat, i, Xa.shape), amount, Scale)
             noisy_x == [dtype |-> "float64", shape |-> Xa.shape,
                         data |-> [i \in Idx(Xa.shape) |->
                                     IF additive THEN Xa.data[i] + nz(i)
                                     ELSE MulDiv(Xa.data[i], Scale + nz(i), Scale)]]
         IN  Drew(Res(_fit_data_to_dtype(noisy_x, Xa.dtype), ya, "body"), <<"rand", "normal">>)

\* tc[c] is the draw of channel c's own factor.
augmentation_channel_scale(Xa, ya, chance, max_amount, additive, cl, u, ua, tc) ==
    IF GateFails(u, chance) THEN Res(Xa, ya, "noop")
    ELSE LET x0 == AsFloat32(Xa)
             amount == MulDiv(Frac(ua), Frac(max_amount), Scale)
             x_scaled == [x0 EXCEPT !.data = [i \in Idx(Xa.shape) |->
                 IF additive
                 THEN F32Round(x0.data[i] + Uniform(-amount, amount, tc[ChanOf(i, cl)]))
                 ELSE F32Round(MulDiv(x0.data[i],
                                      Uniform(Scale - amount, Scale + amount, tc[ChanOf(i, cl)]),
                                      Scale))]]
         IN  Drew(Res(_fit_data_to_dtype(x_scaled, Xa.dtype), ya, "body"),
                  <<"rand">> \o Rep(Channels(Xa, cl), "uniform"))

\* The means are taken per channel of the layout; the stretch loop always
\* indexes the LAST axis with the channel number (x_contrast[:, :, i]).  With
\* channel-first data and more channels than columns that index is out of
\* bounds (no bounds check in nopython mode): ub names the outcome.
UbOutcomes == {"crash", "benign"}
augmentation_contrast(Xa, ya, chance, max_amount, cl, u, ua, ub) ==
    IF GateFails(u, chance) THEN Res(Xa, ya, "noop")
    ELSE LET x0 == AsFloat32(Xa)
             amount == MulDiv(Frac(ua), Frac(max_amount), Scale)
             channels == Channels(Xa, cl)
             cells(c) == {i \in Idx(Xa.shape) : ChanOf(i, cl) = c}
             mean_pixel == [c \in 0 .. channels - 1 |->
                              F32Round(SumData(x0, cells(c)) \div Cardinality(cells(c)))]
             x_contrast == [x0 EXCEPT !.data = [i \in Idx(Xa.shape) |->
                 IF i[3] < channels
                 THEN F32Round(MulDiv(x0.data[i] - mean_pixel[i[3]], Scale + amount, Scale)
                               + mean_pixel[i[3]])
                 ELSE x0.data[i]]]
         IN  IF channels > Xa.shape[3] /\ ub = "crash" THEN Drew(Raise(Xa, ya, "oob"), <<"rand">>)
             ELSE Drew(Res(_fit_data_to_dtype(x_contrast, Xa.dtype), ya, "body"), <<"rand">>)

\* Variant of drop_pixel that writes drop_value into X itself, without the copy.
augmentation_drop_pixel_in_place(Xa, ya, chance, drop_probability, drop_value, cl, u, mpat, stored) ==
    IF u > chance THEN Res(Xa, ya, "noop")
    ELSE LET hit == {i \in Idx(Xa.shape) : MaskDraw(mpat, i, Xa.shape) <= drop_probability}
             x_dropped == [Xa EXCEPT !.data = [i \in Idx(Xa.shape) |->
                               IF i \in hit THEN stored ELSE Xa.data[i]]]
         IN  [Drew(Res(x_dropped, ya, "body"), <<"random">>) EXCEPT
                 !.wrapped = hit # {} /\ stored # FitValue(drop_value, Xa.dtype),
                 !.wrote = {"X"}]

\* stored is what the build's cast of drop_value leaves in an element.
augmentation_drop_pixel(Xa, ya, chance, drop_probability, drop_value, cl, u, mpat, stored) ==
    IF GateFails(u, chance) THEN Res(Xa, ya, "noop")
    ELSE LET hit == {i \in Idx(Xa.shape) : MaskDraw(mpat, i, Xa.shape) <= drop_probability}
             x_dropped == [Xa EXCEPT !.data = [i \in Idx(Xa.shape) |->
                               IF i \in hit THEN stored ELSE Xa.data[i]]]
         IN  [Drew(Res(x_dropped, ya, "body"), <<"random">>) EXCEPT
                 !.wrapped = hit # {} /\ stored # FitValue(drop_value, Xa.dtype)]

\* tr[c] is the draw of the c-th Bernoulli trial (the loop stops at the first
\* success), ch the channel drawn afterwards.
\* Variant of drop_channel that drops every channel whose trial succeeded.
augmentation_drop_channel_each(Xa, ya, chance, drop_probability, drop_value, cl, u, tr, ch, stored) ==
    IF u > chance THEN Res(Xa, ya, "noop")
    ELSE Res([Xa EXCEPT !.data = [i \in Idx(Xa.shape) |->
                  IF tr[ChanOf(i, cl)] < drop_probability THEN stored ELSE Xa.data[i]]],
             ya, "body")

\* Variant of drop_channel whose trial compares the other way round.
augmentation_drop_channel_above(Xa, ya, chance, drop_probability, drop_value, cl, u, tr, ch, stored) ==
    IF u > chance THEN Res(Xa, ya, "noop")
    ELSE LET channels == Channels(Xa, cl)
             drop_a_channel == \E c \in 0 .. channels - 1 : tr[c] > drop_probability
         IN  IF ~drop_a_channel THEN Res(Xa, ya, "body")
             ELSE Res([Xa EXCEPT !.data = [i \in Idx(Xa.shape) |->
                           IF ChanOf(i, cl) = ch THEN stored ELSE Xa.data[i]]],
                      ya, "body")

augmentation_drop_channel(Xa, ya, chance, drop_probability, drop_value, cl, u, tr, ch, stored) ==
    IF GateFails(u, chance) THEN Res(Xa, ya, "noop")
    ELSE LET channels == Channels(Xa, cl)
             drop_a_channel == \E c \in 0 .. channels - 1 : tr[c] < drop_probability
             \* the trials made: up to and including the first success
             trials == IF drop_a_channel
                       THEN 1 + CHOOSE c \in 0 .. channels - 1 :
                                    /\ tr[c] < drop_probability
                                    /\ \A b \in 0 .. c - 1 : ~(tr[b] < drop_probability)
                       ELSE channels
             x_dropped == [Xa EXCEPT !.data = [i \in Idx(Xa.shape) |->
                               IF ChanOf(i, cl) = ch THEN stored ELSE Xa.data[i]]]
         IN  IF ~drop_a_channel THEN Drew(Res(Xa, ya, "body"), Rep(trials, "rand"))
             ELSE [Drew(Res(x_dropped, ya, "body"), Rep(trials, "rand") \o <<"randint">>) EXCEPT
                      !.wrapped = stored # FitValue(drop_value, Xa.dtype)]


\* --------------------------------------------- convolution-based transforms
\* A kernel is a sequence of <<row offset, column offset, weight>>, the weights
\* in fixed-point units.
_simple_blur_kernel_2d_3x3 ==
    << <<-1, -1, 64>>, <<-1, 0, 128>>, <<-1, 1, 64>>,
       <<0, -1, 128>>, <<0, 0, 256>>, <<0, 1, 128>>,
       <<1, -1, 64>>, <<1, 0, 128>>, <<1, 1, 64>> >>

_simple_unsharp_kernel_2d_3x3 ==
    << <<-1, -1, -64>>, <<-1, 0, -128>>, <<-1, 1, -64>>,
       <<0, -1, -128>>, <<0, 0, 1792>>, <<0, 1, -128>>,
       <<1, -1, -64>>, <<1, 0, -128>>, <<1, 1, -64>> >>

\* The subpixel shift by (ox, oy): bilinear weights on the four neighbours.
_simple_shift_kernel_2d(ox, oy) ==
    << <<0, 0, MulDiv(Scale - ox, Scale - oy, Scale)>>,
       <<0, 1, MulDiv(ox, Scale - oy, Scale)>>,
       <<1, 0, MulDiv(Scale - ox, oy, Scale)>>,
       <<1, 1, MulDiv(ox, oy, Scale)>> >>

Clamp(v, lo, hi) == Max2(lo, Min2(v, hi))

RECURSIVE KernelSum(_, _, _, _, _, _, _)
KernelSum(A, cl, ch, r, c, kernel, n) ==
    IF n = 0 THEN 0
    ELSE LET t == kernel[n]
             rr == Clamp(r + t[1], 0, Height(A, cl) - 1)
             cc == Clamp(c + t[2], 0, Width(A, cl) - 1)
         IN  MulDiv(A.data[At(cl, rr, cc, ch)], t[3], Scale)
             + KernelSum(A, cl, ch, r, c, kernel, n - 1)

\* convolve_array_simple on channel ch of A, at element i: the kernel response
\* (edges replicated), blended with the element by intensity.
convolve_array_simple(A, cl, i, kernel, intensity) ==
    LET full == KernelSum(A, cl, ChanOf(i, cl), RowOf(i, cl), ColOf(i, cl), kernel, Len(kernel))
    IN  F32Round(MulDiv(full, intensity, Scale) + MulDiv(A.data[i], Scale - intensity, Scale))

ConvAll(Xa, cl, kernel, intensity) ==
    LET x0 == AsFloat32(Xa)
    IN  [x0 EXCEPT !.data = [i \in Idx(Xa.shape) |->
                                convolve_array_simple(x0, cl, i, kernel, intensity)]]

augmentation_blur(Xa, ya, chance, intensity, cl, u) ==
    IF GateFails(u, chance) THEN Res(Xa, ya, "noop")
    ELSE Res(_fit_data_to_dtype(ConvAll(Xa, cl, _simple_blur_kernel_2d_3x3, Frac(intensity)),
                                Xa.dtype), ya, "body")

\* u is blur_xy's own gate draw, ux and uy the gate draws of the two inner calls.
augmentation_blur_xy(Xa, ya, chance, intensity, cl, u, ux, uy) ==
    IF GateFails(u, chance) THEN Res(Xa, ya, "noop")
    ELSE LET rx == augmentation_blur(Xa, NoneArr, chance, intensity, cl, ux)
             ry == augmentation_blur(ya, NoneArr, chance, intensity, cl, uy)
         IN  Drew(Res(rx.X, ry.X, "body"), rx.draws \o ry.draws)

augmentation_sharpen(Xa, ya, chance, intensity, cl, u) ==
    IF GateFails(u, chance) THEN Res(Xa, ya, "noop")
    ELSE Res(_fit_data_to_dtype(ConvAll(Xa, cl, _simple_unsharp_kernel_2d_3x3, Frac(intensity)),
                                Xa.dtype), ya, "body")

augmentation_sharpen_xy(Xa, ya, chance, intensity, cl, u, ux, uy) ==
    IF GateFails(u, chance) THEN Res(Xa, ya, "noop")
    ELSE LET rx == augmentation_sharpen(Xa, NoneArr, chance, intensity, cl, ux)
             ry == augmentation_sharpen(ya, NoneArr, chance, intensity, cl, uy)
         IN  Drew(Res(rx.X, ry.X, "body"), rx.draws \o ry.draws)

\* o1, o2 are the two offset draws, ch the channel drawn.
augmentation_misalign(Xa, ya, chance, max_offset, cl, u, o1, o2, ch) ==
    IF GateFails(u, chance) THEN Res(Xa, ya, "noop")
    ELSE LET x0 == AsFloat32(Xa)
             kernel == _simple_shift_kernel_2d(Min2(Frac(o1), Frac(max_offset)),
                                               Min2(Frac(o2), Frac(max_offset)))
             x_misaligned == [x0 EXCEPT !.data = [i \in Idx(Xa.shape) |->
                 IF ChanOf(i, cl) = ch
                 THEN convolve_array_simple(x0, cl, i, kernel, Scale)
                 ELSE x0.data[i]]]
         IN  Drew(Res(_fit_data_to_dtype(x_misaligned, Xa.dtype),
                      IF IsNone(ya) THEN ya ELSE _fit_data_to_dtype(AsFloat32(ya), ya.dtype),
                      "body"),
                  <<"rand", "rand", "randint">>)


\* ------------------------------------------------ spatial mixing transforms
\* np.random.randint(lo, hi) draws from lo .. hi - 1 and raises ValueError on an
\* empty range.
RandintRange(lo, hi) == lo .. hi - 1

\* int(extent * size) for the size n/Den.
IntOfShare(extent, n) == (extent * n) \div Den
CutmixPatchRange(extent, min_size, max_size) ==
    RandintRange(IntOfShare(extent, min_size), IntOfShare(extent, max_size))
CutmixPatchLen(p, feather, feather_dist, extent) ==
    IF feather THEN Min2(p + feather_dist * 2, extent) ELSE p
CutmixOriginRange(extent, plen) == RandintRange(0, extent - plen)

\* _feather_box_2d: the target's weight at (col, row) for the box
\* [x0, x1) x [y0, y1): 0 inside the box, rising with the distance to it and 1
\* from feather_dist + 1 pixels on.
_feather_box_2d(col, row, x0, x1, y0, y1, feather_dist) ==
    LET dx == IF row < x0 THEN x0 - row ELSE IF row >= x1 THEN row - x1 + 1 ELSE 0
        dy == IF col < y0 THEN y0 - col ELSE IF col >= y1 THEN col - y1 + 1 ELSE 0
    IN  Min2(Scale, (Max2(dx, dy) * Scale) \div (feather_dist + 1))

\* The label value a label_mix code gives from the target's and the donor's
\* value and the target's weight wt (the donor's is Scale - wt).
CutmixLabel(label_mix, yv, ysv, wt) ==
    IF label_mix = 0 THEN F32Round(MulDiv(yv, wt, Scale) + MulDiv(ysv, Scale - wt, Scale))
    ELSE IF label_mix = 1 THEN yv
    ELSE IF label_mix = 2 THEN F32Round(ysv)
    ELSE IF label_mix = 3 THEN F32Round(Max2(yv, ysv))
    ELSE IF label_mix = 4 THEN F32Round(Min2(yv, ysv))
    ELSE IF label_mix = 5 THEN (IF wt > Scale - wt THEN yv ELSE F32Round(ysv))
    ELSE IF label_mix = 6 THEN (IF wt < Scale - wt THEN yv ELSE F32Round(ysv))
    ELSE IF label_mix = 7 THEN F32Round(yv + ysv)
    ELSE yv

\* ph, pw: the patch size draws; ox, oy: the origin draws; ub: the outcome of
\* an out-of-bounds element access in the feathered loops.
augmentation_cutmix(Xt, yt, Xs, ys, chance, min_size, max_size, label_mix, feather, feather_dist, cl, u, ph, pw, ox, oy, ub) ==
    IF GateFails(u, chance) THEN Res(Xt, yt, "noop")
    ELSE
    LET x_mixed == AsFloat32(Xt)
        y_mixed == AsFloat32(yt)
        height == Height(Xt, cl)
        width == Width(Xt, cl)
        patch_height == CutmixPatchLen(ph, feather, feather_dist, height)
        patch_width == CutmixPatchLen(pw, feather, feather_dist, width)
        x0 == ox
        y0 == oy
        x1 == x0 + patch_width
        y1 == y0 + patch_height
        \* the feathered region, clamped by x_mixed.shape[1] and x_mixed.shape[0]
        fx0 == Max2(0, x0 - feather_dist)
        fx1 == Min2(x1 + 1 + feather_dist, Xt.shape[2])
        fy0 == Max2(0, y0 - feather_dist)
        fy1 == Min2(y1 + 1 + feather_dist, Xt.shape[1])
        inside(A, col, row) == col < Height(A, cl) /\ row < Width(A, cl)
        valid(col, row) == /\ inside(Xt, col, row) /\ inside(Xs, col, row)
                           /\ inside(yt, col, row) /\ inside(ys, col, row)
                           /\ Channels(Xs, cl) >= Channels(Xt, cl)
                           /\ Channels(ys, cl) >= Channels(yt, cl)
        region(i) == /\ fy0 <= RowOf(i, cl) /\ RowOf(i, cl) < fy1
                     /\ fx0 <= ColOf(i, cl) /\ ColOf(i, cl) < fx1
                     /\ valid(RowOf(i, cl), ColOf(i, cl))
        oob == \E col \in fy0 .. fy1 - 1, row \in fx0 .. fx1 - 1 : ~valid(col, row)
        wt(i) == _feather_box_2d(RowOf(i, cl), ColOf(i, cl), x0, x1, y0, y1, feather_dist)
        x_feather == [x_mixed EXCEPT !.data = [i \in Idx(Xt.shape) |->
            IF region(i)
            THEN F32Round(MulDiv(x_mixed.data[i], wt(i), Scale)
                          + MulDiv(Xs.data[i], Scale - wt(i), Scale))
            ELSE x_mixed.data[i]]]
        y_feather == [y_mixed EXCEPT !.data = [i \in Idx(yt.shape) |->
            IF region(i)
            THEN CutmixLabel(label_mix, y_mixed.data[i], ys.data[i], wt(i))
            ELSE y_mixed.data[i]]]
        patch(i) == /\ y0 <= RowOf(i, cl) /\ RowOf(i, cl) < y1
                    /\ x0 <= ColOf(i, cl) /\ ColOf(i, cl) < x1
        \* the slices [y0:y1, x0:x1] of target and donor, each cut off at its own
        \* array's extents: the donor's slice has the target slice's shape or
        \* extent 1 where they differ
        cut(lo, hi, extent) == Min2(hi, extent) - Min2(lo, extent)
        fitsAxis(tn, sn) == sn = tn \/ sn = 1
        fits(T, S) == /\ fitsAxis(cut(y0, y1, Height(T, cl)), cut(y0, y1, Height(S, cl)))
                      /\ fitsAxis(cut(x0, x1, Width(T, cl)), cut(x0, x1, Width(S, cl)))
                      /\ fitsAxis(Channels(T, cl), Channels(S, cl))
        sliceAt(S, i) == S.data[At(cl,
            IF cut(y0, y1, Height(S, cl)) = 1 THEN Min2(y0, Height(S, cl) - 1) ELSE RowOf(i, cl),
            IF cut(x0, x1, Width(S, cl)) = 1 THEN Min2(x0, Width(S, cl) - 1) ELSE ColOf(i, cl),
            IF Channels(S, cl) = 1 THEN 0 ELSE ChanOf(i, cl))]
        x_cut == [x_mixed EXCEPT !.data = [i \in Idx(Xt.shape) |->
            IF patch(i) THEN F32Round(sliceAt(Xs, i)) ELSE x_mixed.data[i]]]
        y_cut == [y_mixed EXCEPT !.data = [i \in Idx(yt.shape) |->
            IF patch(i) THEN F32Round(sliceAt(ys, i)) ELSE y_mixed.data[i]]]
        \* the randint calls made: up to and including the first that raises
        made == IF CutmixPatchRange(height, min_size, max_size) = {} THEN 1
                ELSE IF CutmixPatchRange(width, min_size, max_size) = {} THEN 2
                ELSE IF CutmixOriginRange(width, patch_width) = {} THEN 3
                ELSE 4
        ds == Rep(made, "randint")
    IN  IF \/ CutmixPatchRange(height, min_size, max_size) = {}
           \/ CutmixPatchRange(width, min_size, max_size) = {}
           \/ CutmixOriginRange(width, patch_width) = {}
           \/ CutmixOriginRange(height, patch_height) = {}
        THEN Drew(Raise(Xt, yt, "ValueError"), ds)
        ELSE IF feather
        THEN IF oob /\ ub = "crash" THEN Drew(Raise(Xt, yt, "oob"), ds)
             ELSE Drew(Res(_fit_data_to_dtype(x_feather, Xt.dtype),
                           _fit_data_to_dtype(y_feather, yt.dtype), "body"), ds)
        ELSE IF ~fits(Xt, Xs) \/ ~fits(yt, ys) THEN Drew(Raise(Xt, yt, "ShapeMismatch"), ds)
             ELSE Drew(Res(_fit_data_to_dtype(x_cut, Xt.dtype),
                           _fit_data_to_dtype(y_cut, yt.dtype), "body"), ds)

\* The elementwise operations of two arrays follow the broadcasting rule: the
\* shapes agree on an axis or one of them is 1 there, and the array of extent 1
\* is repeated along it.
Broadcastable(s1, s2) == \A d \in 1 .. 3 : s1[d] = s2[d] \/ s1[d] = 1 \/ s2[d] = 1
BroadcastShape(s1, s2) == <<Max2(s1[1], s2[1]), Max2(s1[2], s2[2]), Max2(s1[3], s2[3])>>
BroadcastAt(A, i) == A.data[[d \in 1 .. 3 |-> IF A.shape[d] = 1 THEN 0 ELSE i[d]]]

\* 0.001 on the grid: the coefficient is drawn below max_size + 0.001, which
\* lies between one and two grid units above max_size.
MixupEps == 2

\* t is the draw of the coefficient.
MixupCoeff(min_size, max_size, t) ==
    F32Round(Min2(Uniform(Frac(min_size), Frac(max_size) + MixupEps, t), Scale))

\* Variant of mixup (label_mix = 0) that weights the label the other way round:
\* the donor's label by the coefficient, the target's by its complement.
augmentation_mixup_label_swapped(Xt, yt, Xs, ys, min_size, max_size, label_mix, chance, cl, u, t) ==
    IF u > chance THEN Res(Xt, yt, "noop")
    ELSE
    LET mixup_coeff == MixupCoeff(min_size, max_size, t)
        blend(a, b) == F32Round(F32Round(MulDiv(F32Round(a), mixup_coeff, Scale))
                                + F32Round(MulDiv(F32Round(b), Scale - mixup_coeff, Scale)))
    IN  Res(_fit_data_to_dtype([Xt EXCEPT !.data = [i \in Idx(Xt.shape) |->
                                    blend(Xt.data[i], Xs.data[i])]], Xt.dtype),
            _fit_data_to_dtype([yt EXCEPT !.data = [i \in Idx(yt.shape) |->
                                    blend(ys.data[i], yt.data[i])]], yt.dtype), "body")

augmentation_mixup(Xt, yt, Xs, ys, min_size, max_size, label_mix, chance, cl, u, t) ==
    IF GateFails(u, chance) THEN Res(Xt, yt, "noop")
    ELSE
    LET xt == AsFloat32(Xt)
        y_t == AsFloat32(yt)
        xs == AsFloat32(Xs)
        y_s == AsFloat32(ys)
        mixup_coeff == MixupCoeff(min_size, max_size, t)
        blend(a, b) == F32Round(F32Round(MulDiv(a, mixup_coeff, Scale))
                                + F32Round(MulDiv(b, Scale - mixup_coeff, Scale)))
        both(A, B, f(_, _)) ==
            [dtype |-> "float32", shape |-> BroadcastShape(A.shape, B.shape),
             data |-> [i \in Idx(BroadcastShape(A.shape, B.shape)) |->
                         f(BroadcastAt(A, i), BroadcastAt(B, i))]]
        sum(a, b) == F32Round(a + b)
        x_mixed == both(xt, xs, blend)
        y_mixed ==
            IF label_mix = 0 THEN both(y_t, y_s, blend)
            ELSE IF label_mix = 1 THEN y_t
            ELSE IF label_mix = 2 THEN y_s
            ELSE IF label_mix = 3 THEN both(y_t, y_s, Max2)
            ELSE IF label_mix = 4 THEN both(y_t, y_s, Min2)
            ELSE IF label_mix = 5 THEN (IF mixup_coeff >= Scale \div 2 THEN y_t ELSE y_s)
            ELSE IF label_mix = 6 THEN (IF mixup_coeff >= Scale \div 2 THEN y_t ELSE y_s)
            ELSE IF label_mix = 7 THEN both(y_t, y_s, sum)
            ELSE y_t
    IN  IF \/ ~Broadcastable(Xt.shape, Xs.shape)
           \/ (label_mix \in {0, 3, 4, 7} /\ ~Broadcastable(yt.shape, ys.shape))
        THEN Drew(Raise(Xt, yt, "ShapeMismatch"), <<"uniform">>)
        ELSE Drew(Res(_fit_data_to_dtype(x_mixed, Xt.dtype),
                      _fit_data_to_dtype(y_mixed, yt.dtype), "body"), <<"uniform">>)


\* ------------------------------------------------------------ state machine
\* X, y: the current pair; src: the donor pair handed to cutmix and mixup;
\* orig: the pair the run started from; cl: the channel_last flag of every call;
\* mode: which input sets the run draws from ("call": one call with the wide
\* sets, "seq": a pipeline of calls, "rot": a chain of rotations, "mir": a
\* chain of mirrors, "geo": one rotation or mirror of a pair with or without
\* label, "mix": one mixup, "cut": one cutmix of a tile of up to CutMax rows and
\* columns, "pipe": one __getitem__ of a dataset with a pipeline of records, a
\* callback and an output layout, "mis": one call of a joint transform on
\* arrays whose extents need not agree; "ram", "bands", "overfit", "best": a
\* run of one of the utilities, in which the pair is a fixed tile that nothing
\* touches);
\* step: calls made; last: the last call (its name, gate, parameters, draws and
\* outcome); ksum: the k of the calls made, combined (rotations: the sum
\* modulo 4; mirrors: the flips that remain), and sure: whether each of them
\* had an explicit k and chance = 1;
\* x_train, y_train: the dataset's stored item and donor; view: whether the
\* current feature and label are still the dataset's own arrays.
\* augmentations, callback, output_is_channel_last: the dataset's pipeline (the
\* records' names), whether it has a callback, and its output layout; phase:
\* where __getitem__ stands ("aug": in the loop over the records, "callback":
\* past the callback, "done": returned); picked: the donor index drawn for each
\* record applied ("none" for a record without donor).
\* gdal_call: one call of a function of gdal_utils (the function, its arguments,
\* and its outcome once it returned); overfit: an OverfitProtection callback,
\* its model's stop_training flag and the epochs run; save_best: a SaveBestModel
\* callback and the epochs run.
VARIABLES X, y, src, orig, cl, mode, step, last, ksum, sure, x_train, y_train, view, augmentations, callback, output_is_channel_last, phase, picked, gdal_call, overfit, save_best
augs == <<X, y, src, orig, cl, mode, step, last, ksum, sure, x_train, y_train, view, augmentations, callback, output_is_channel_last, phase, picked>>
utils == <<gdal_call, overfit, save_best>>
vars == <<X, y, src, orig, cl, mode, step, last, ksum, sure, x_train, y_train, view, augmentations, callback, output_is_channel_last, phase, picked, gdal_call, overfit, save_best>>

\* The pipelines of a "pipe" run: up to MaxSteps records, each a rotation with
\* k = 1, a mirror with k = 1, a mixup with min_size = max_size = 0.5 and
\* label_mix = 0 (all with chance = 1), or a record named "flip".
PipeNames == {"rotation", "mirror", "mixup", "flip"}
Pipelines == UNION {[1 .. n -> PipeNames] : n \in 0 .. MaxSteps}

\* The runs of the utilities, and the idle values of their variables in the
\* other runs.
UtilModes == {"ram", "bands", "overfit", "best"}
NoCall == [fn |-> "none", state |-> "idle"]
NoCallback == [attached |-> FALSE]
Pending == [ret |-> <<>>, err |-> "pending"]

\* get_gdalwarp_ram_limit: the minimum it hands to gdalwarp, in bytes.
min_ram == 1000000

\* The calls of get_gdalwarp_ram_limit: limit_in_mb is an integer (kind "int",
\* v MB), a string "v%" (kind "percent"), the string "auto", or a string
\* without "%" (kind "text"); total_ram_share_mb and dynamic_limit are what
\* core_utils reports on this machine for the share of the total RAM (MB) and
\* for the dynamic limit (bytes).
RamLimits ==
    [kind : {"int"}, v : -1 .. MaxMb] \cup [kind : {"percent"}, v : {0, 1, 50, 100, 101}]
        \cup [kind : {"auto", "text"}, v : {0}]
RamCalls ==
    [fn : {"get_gdalwarp_ram_limit"}, limit_in_mb : RamLimits,
     total_ram_share_mb : {0, 1, MaxMb}, dynamic_limit : {MaxMb * (1024 * 1024)},
     state : {"pending"}, out : {Pending}]

\* The calls of to_band_list: band_number is one integer (kind "scalar", v) or
\* a list of up to MaxList integers (kind "list", list), band_count the
\* raster's number of bands.
BandNumbers == (0 - 2) .. (MaxBands + 2)
BandRequests ==
    [kind : {"scalar"}, v : BandNumbers, list : {<<>>}]
        \cup [kind : {"list"}, v : {0}, list : UNION {[1 .. n -> BandNumbers] : n \in 0 .. MaxList}]
BandCalls ==
    [fn : {"to_band_list"}, band_number : BandRequests, band_count : 1 .. MaxBands,
     state : {"pending"}, out : {Pending}]

\* OverfitProtection.on_epoch_end's epsilon (1e-7), the unit of the losses.
epsilon == 1
Losses == {n * LossUnit : n \in 0 .. MaxLoss}

\* An OverfitProtection callback as constructed (difference in units of
\* 1/Den), attached to a model that is about to run epoch 0; logs and before
\* keep the last epoch's logs and the count before it.
OverfitStarts ==
    [attached : {TRUE}, difference : 0 .. 1, patience : 2 .. 4, offset_start : {0, 2},
     count : {0}, stop_training : {FALSE}, epoch : {0},
     logs : {[loss |-> 0, val_loss |-> 0]}, before : {0}]

\* float("inf"): above every finite metric value.
Infinity == MaxMetric + 1
MetricValues == ((0 - MaxMetric) .. MaxMetric) \cup {Infinity, 0 - Infinity}

\* A SaveBestModel callback as constructed, attached to a model that is about
\* to run epoch 0. best_weights is <<>> while the attribute is not set and
\* <<e>> for the weights the model had at the end of epoch e; seen and bests
\* keep the absolute metric value of each epoch run and best after it.
SaveBestStarts ==
    {[attached |-> TRUE, max |-> this_max,
      best |-> IF this_max THEN 0 - Infinity ELSE Infinity,
      best_weights |-> <<>>, epoch |-> 0, seen |-> <<>>, bests |-> <<>>] :
        this_max \in BOOLEAN}

ShapeOf(c_last, h, w, c) == IF c_last THEN <<h, w, c>> ELSE <<c, h, w>>

\* Sequential values from base on; a float64 sample holds values with 25
\* significant bits (2^24 + 1 grid units and up).
Sample(dt, sh, base) ==
    [dtype |-> dt, shape |-> sh,
     data |-> [i \in Idx(sh) |->
                 IF dt = "float64" THEN 2^24 + 1 + base + Flat(i, sh)
                 ELSE (base + Flat(i, sh)) * Scale]]

\* An array holding the constant v.
ConstSample(dt, sh, v) ==
    [dtype |-> dt, shape |-> sh, data |-> [i \in Idx(sh) |-> v * Scale]]

DtypePairs(m) ==
    IF m = "call" THEN {<<"uint8", "uint8">>, <<"float32", "uint8">>, <<"float64", "float64">>}
    ELSE IF m = "mix" THEN {<<"uint8", "uint8">>, <<"float32", "float32">>, <<"float64", "float64">>}
    ELSE IF m \in {"cut", "mis"} THEN {<<"uint8", "uint8">>, <<"float32", "float32">>}
    ELSE {<<"uint8", "uint8">>}

\* In a "mis" run the label's, the donor's and the donor label's extents (ye,
\* de, dye) are free; in every other run they are the feature's.
\* A mixup run starts from a ramp or from the constants 10 (target) and 20
\* (donor).
InitOf(m) ==
    /\ mode = m
    /\ cl \in (IF m \in {"pipe"} \cup UtilModes THEN {FALSE} ELSE BOOLEAN)
    /\ gdal_call \in (IF m = "ram" THEN RamCalls ELSE IF m = "bands" THEN BandCalls ELSE {NoCall})
    /\ overfit \in (IF m = "overfit" THEN OverfitStarts ELSE {NoCallback})
    /\ save_best \in (IF m = "best" THEN SaveBestStarts ELSE {NoCallback})
    /\ augmentations \in (IF m = "pipe" THEN Pipelines ELSE {<<>>})
    /\ callback \in (IF m = "pipe" THEN BOOLEAN ELSE {FALSE})
    /\ output_is_channel_last \in (IF m = "pipe" THEN BOOLEAN ELSE {FALSE})
    /\ phase = "aug"
    /\ picked = <<>>
    /\ \E dts \in DtypePairs(m),
          h \in (IF m = "cut" THEN 1 .. CutMax ELSE IF m = "pipe" THEN {MaxH}
                 ELSE IF m \in UtilModes THEN {1} ELSE 1 .. MaxH),
          w \in (IF m = "cut" THEN 1 .. CutMax ELSE IF m = "pipe" THEN {MaxW}
                 ELSE IF m \in UtilModes THEN {1} ELSE 1 .. MaxW),
          c \in (IF m \in {"call", "cut", "pipe"} THEN 1 .. MaxC
                 ELSE IF m \in {"mix"} \cup UtilModes THEN {1} ELSE {MaxC}),
          labelled \in (IF m \in {"rot", "mir", "geo"} THEN BOOLEAN ELSE {TRUE}),
          flat \in (IF m = "mix" THEN BOOLEAN ELSE {FALSE}) :
       \E ye \in (IF m = "mis" THEN (1 .. MaxH) \X (1 .. MaxW) ELSE {<<h, w>>}),
          de \in (IF m = "mis" THEN (1 .. MaxH) \X (1 .. MaxW) ELSE {<<h, w>>}) :
       \E dye \in (IF m = "mis" THEN {ye, de} ELSE {<<h, w>>}) :
          /\ X = IF flat THEN ConstSample(dts[1], ShapeOf(cl, h, w, c), 10)
                 ELSE Sample(dts[1], ShapeOf(cl, h, w, c), 0)
          /\ y = IF ~labelled THEN NoneArr
                 ELSE IF flat THEN ConstSample(dts[2], ShapeOf(cl, h, w, 1), 10)
                 ELSE Sample(dts[2], ShapeOf(cl, ye[1], ye[2], 1), 1)
          /\ src = IF flat
                   THEN [X |-> ConstSample(dts[1], ShapeOf(cl, h, w, c), 20),
                         y |-> ConstSample(dts[2], ShapeOf(cl, h, w, 1), 20)]
                   ELSE [X |-> Sample(dts[1], ShapeOf(cl, de[1], de[2], c), 100),
                         y |-> Sample(dts[2], ShapeOf(cl, dye[1], dye[2], 1),
                                      IF m = "cut" THEN 200 ELSE 250)]
    /\ orig = [X |-> X, y |-> y]
    /\ x_train = [item |-> X, donor |-> src.X]
    /\ y_train = [item |-> y, donor |-> src.y]
    /\ view = [X |-> TRUE, y |-> TRUE]
    /\ step = 0
    /\ last = [name |-> "init", chance |-> 0, u |-> 0, branch |-> "noop", err |-> "none",
               wrapped |-> FALSE, draws |-> <<>>, p |-> <<>>]
    /\ ksum = 0
    /\ sure = TRUE

Init == InitOf("call")
InitSeq == InitOf("seq")
InitRot == InitOf("rot")
InitMir == InitOf("mir")
InitGeo == InitOf("geo")
InitMix == InitOf("mix")
InitCut == InitOf("cut")
InitPipe == InitOf("pipe")
InitRam == InitOf("ram")
InitBands == InitOf("bands")
InitOverfit == InitOf("overfit")
InitBest == InitOf("best")
InitMis == InitOf("mis")

\* The input sets of a run.  GatesAll: every chance with every draw; GatesEdge:
\* chance 0 and chance 1 with every draw; a pipeline run meets one passing and
\* one failing gate.
GatesAll(m) == IF m \in {"call", "geo"} THEN Chances \X Draws
               ELSE IF m = "pipe" THEN {<<Den, 0>>}
               ELSE {<<0, Den - 1>>, <<Den, Den - 1>>}
GatesEdge(m) == IF m \in {"call", "mix"} THEN {0, Den} \X Draws
                ELSE IF m = "pipe" THEN {<<Den, 0>>}
                ELSE {<<0, Den - 1>>, <<Den, Den - 1>>}
Ks == {KNone, 0, 1, 2, 3}
KsOf(m) == IF m = "pipe" THEN {1} ELSE Ks
SubDraws(m) == IF m \in {"call", "mix"} THEN Draws ELSE IF m = "pipe" THEN {0} ELSE {Den - 1}
DonorPicks(m) == IF m = "pipe" THEN {"item", "donor"} ELSE {"donor"}
Patterns(m, S) == IF m = "call" THEN S ELSE {"alt"}
Intensities(m) == IF m = "call" THEN {0, Den} ELSE {Den}
DropValues == {0, 300 * Scale}
SizePairs(m) == IF m = "call" THEN {<<0, Den>>, <<Den \div 2, Den>>, <<Den \div 2, Den \div 2>>}
                ELSE IF m = "mix" THEN {<<0, Den>>, <<0, 0>>, <<Den \div 2, Den \div 2>>, <<Den, Den>>}
                ELSE IF m = "cut" THEN {<<0, Den>>, <<Den \div 2, Den>>, <<0, 0>>, <<Den, Den>>}
                ELSE IF m = "pipe" THEN {<<Den \div 2, Den \div 2>>}
                ELSE {<<0, Den>>}
LabelMixes(m) == IF m = "call" THEN {0, 1, 2, 7} ELSE IF m \in {"mix", "cut"} THEN 0 .. 7
                 ELSE IF m = "pipe" THEN {0} ELSE {1}
OrDummy(S) == IF S = {} THEN {-1} ELSE S

CanCall == /\ last.err = "none"
           /\ phase = "aug"
           /\ IF mode = "pipe" THEN step < Len(augmentations)
              ELSE IF mode = "seq" THEN step < MaxSteps
              ELSE IF mode \in {"rot", "mir"} THEN step < MaxRot
              ELSE step = 0

\* The transforms that return another label array than the one they were given.
LabelTransforms == {"rotation", "mirror", "blur_xy", "sharpen_xy", "misalign", "cutmix", "mixup"}

\* One call returns: the pair is replaced by what it returned (a call that
\* raised returns nothing) and the call is recorded, with its parameters and
\* draws when its body ran.
\* A call that wrote into an input array wrote into the dataset when that
\* array was still the dataset's own (x = self.x_train[index]).
Commit(name, g, r, params) ==
    /\ mode = "pipe" => augmentations[step + 1] = name
    /\ picked' = picked \o <<IF "donor" \in DOMAIN params THEN params.donor ELSE "none">>
    /\ X' = IF r.err = "none" THEN r.X ELSE X
    /\ y' = IF r.err = "none" THEN r.y ELSE y
    /\ last' = [name |-> name, chance |-> g[1], u |-> g[2], branch |-> r.branch,
                err |-> r.err, wrapped |-> r.wrapped, draws |-> r.draws,
                p |-> IF g[2] > g[1] THEN <<>> ELSE params]
    /\ step' = step + 1
    /\ x_train' = IF "X" \in r.wrote /\ view.X THEN [x_train EXCEPT !.item = r.X] ELSE x_train
    /\ y_train' = IF "y" \in r.wrote /\ view.y THEN [y_train EXCEPT !.item = r.y] ELSE y_train
    /\ view' = [X |-> view.X /\ r.branch = "noop",
                y |-> view.y /\ (r.branch = "noop" \/ name \notin LabelTransforms)]
    /\ UNCHANGED <<src, orig, cl, mode, augmentations, callback, output_is_channel_last, phase>>
    /\ UNCHANGED utils

\* Variant of the donor sample that hands out the pair as augmented so far when
\* the index drawn is the item's own.
DonorOfCurrent(idx) == IF idx = "item" THEN [X |-> X, y |-> y] ELSE [X |-> x_train[idx], y |-> y_train[idx]]

\* The donor sample of cutmix and mixup: xx, yy = self.x_train[idx_source],
\* self.y_train[idx_source].
DonorOf(idx) == [X |-> x_train[idx], y |-> y_train[idx]]

NoK == /\ ksum' = ksum
       /\ sure' = FALSE

Rotation ==
    /\ CanCall
    /\ \E g \in GatesAll(mode), k \in KsOf(mode), rk \in 1 .. 3 :
          /\ k # KNone => rk = 1
          /\ Commit("rotation", g, augmentation_rotation(X, y, g[1], k, cl, g[2], rk),
                    [k |-> k, rk |-> rk])
          /\ ksum' = (ksum + (IF k = KNone THEN 0 ELSE k)) % 4
          /\ sure' = (sure /\ k # KNone /\ g[1] = Den)

\* The flips left by the flips a and then b (1: left-right, 2: up-down, 3: both).
FlipSum(a, b) == ((a + b) % 2) + 2 * (((a \div 2) + (b \div 2)) % 2)

Mirror ==
    /\ CanCall
    /\ \E g \in GatesAll(mode), k \in KsOf(mode), rk \in 1 .. 3 :
          /\ k # KNone => rk = 1
          /\ Commit("mirror", g, augmentation_mirror(X, y, g[1], k, cl, g[2], rk),
                    [k |-> k, rk |-> rk])
          /\ ksum' = IF mode = "mir" /\ k # KNone THEN FlipSum(ksum, k) ELSE ksum
          /\ sure' = (mode = "mir" /\ sure /\ k # KNone /\ g[1] = Den)

Noise ==
    /\ CanCall
    /\ \E g \in GatesAll(mode), additive \in BOOLEAN,
          ua \in SubDraws(mode), npat \in Patterns(mode, NormalPatterns) :
          /\ Commit("noise", g,
                    augmentation_noise(X, y, g[1], Den, additive, cl, g[2], ua, npat),
                    [max_amount |-> Den, additive |-> additive, ua |-> ua, npat |-> npat])
          /\ NoK

\* The orders in which the iterations of a prange loop over n channels may
\* run, as the sequence of channels.
LoopOrders(m, n) ==
    IF m = "call" THEN {o \in [1 .. n -> 0 .. n - 1] : \A a, b \in 1 .. n : o[a] = o[b] => a = b}
    ELSE {[j \in 1 .. n |-> j - 1]}

\* stream is what the np.random.uniform calls of the loop return, in the order
\* they are made; order is the order in which the prange iterations run: the
\* iteration of channel order[j] makes the j-th call.
ChannelScale ==
    /\ CanCall
    /\ \E g \in GatesAll(mode), additive \in BOOLEAN, ua \in SubDraws(mode),
          stream \in [1 .. Channels(X, cl) -> SubDraws(mode)],
          order \in LoopOrders(mode, Channels(X, cl)) :
          LET tc == [ch \in 0 .. Channels(X, cl) - 1 |->
                        stream[CHOOSE j \in 1 .. Channels(X, cl) : order[j] = ch]]
          IN  /\ Commit("channel_scale", g,
                        augmentation_channel_scale(X, y, g[1], Den, additive, cl, g[2], ua, tc),
                        [max_amount |-> Den, additive |-> additive, ua |-> ua, tc |-> tc,
                         stream |-> stream, order |-> order])
              /\ NoK

Contrast ==
    /\ CanCall
    /\ \E g \in GatesAll(mode), ua \in SubDraws(mode), ub \in UbOutcomes :
          /\ Commit("contrast", g,
                    augmentation_contrast(X, y, g[1], Den, cl, g[2], ua, ub),
                    [max_amount |-> Den, ua |-> ua])
          /\ NoK

DropPixel ==
    /\ CanCall
    /\ \E g \in GatesAll(mode), drop_probability \in {0, Den}, drop_value \in DropValues,
          mpat \in Patterns(mode, MaskPatterns) :
          \E stored \in CastOutcomes(drop_value, X.dtype) :
             /\ Commit("drop_pixel", g,
                       augmentation_drop_pixel(X, y, g[1], drop_probability, drop_value, cl,
                                               g[2], mpat, stored),
                       [drop_probability |-> drop_probability, drop_value |-> drop_value,
                        mpat |-> mpat, stored |-> stored])
             /\ NoK

DropChannel ==
    /\ CanCall
    /\ \E g \in GatesEdge(mode), drop_probability \in Chances, drop_value \in DropValues,
          tr \in [0 .. Channels(X, cl) - 1 -> SubDraws(mode)],
          ch \in 0 .. Channels(X, cl) - 1 :
          \E stored \in CastOutcomes(drop_value, X.dtype) :
             /\ Commit("drop_channel", g,
                       augmentation_drop_channel(X, y, g[1], drop_probability, drop_value, cl,
                                                 g[2], tr, ch, stored),
                       [drop_probability |-> drop_probability, drop_value |-> drop_value,
                        tr |-> tr, ch |-> ch, stored |-> stored])
             /\ NoK

Blur ==
    /\ CanCall
    /\ \E g \in GatesAll(mode), intensity \in Intensities(mode) :
          /\ Commit("blur", g, augmentation_blur(X, y, g[1], intensity, cl, g[2]),
                    [intensity |-> intensity])
          /\ NoK

BlurXY ==
    /\ CanCall
    /\ ~IsNone(y)
    /\ \E g \in GatesAll(mode), ux \in Draws, uy \in Draws :
          /\ Commit("blur_xy", g,
                    augmentation_blur_xy(X, y, g[1], Den, cl, g[2], ux, uy),
                    [intensity |-> Den, ux |-> ux, uy |-> uy])
          /\ NoK

Sharpen ==
    /\ CanCall
    /\ \E g \in GatesAll(mode), intensity \in Intensities(mode) :
          /\ Commit("sharpen", g, augmentation_sharpen(X, y, g[1], intensity, cl, g[2]),
                    [intensity |-> intensity])
          /\ NoK

SharpenXY ==
    /\ CanCall
    /\ ~IsNone(y)
    /\ \E g \in GatesAll(mode), ux \in Draws, uy \in Draws :
          /\ Commit("sharpen_xy", g,
                    augmentation_sharpen_xy(X, y, g[1], Den, cl, g[2], ux, uy),
                    [intensity |-> Den, ux |-> ux, uy |-> uy])
          /\ NoK

Misalign ==
    /\ CanCall
    /\ \E g \in GatesAll(mode), o1 \in SubDraws(mode), o2 \in SubDraws(mode),
          ch \in 0 .. Channels(X, cl) - 1 :
          /\ Commit("misalign", g,
                    augmentation_misalign(X, y, g[1], Den, cl, g[2], o1, o2, ch),
                    [max_offset |-> Den, o1 |-> o1, o2 |-> o2, ch |-> ch])
          /\ NoK

\* feather_dist is read in feathered mode only, label_mix likewise.
Cutmix ==
    /\ CanCall
    /\ ~IsNone(y)
    /\ \E g \in GatesEdge(mode), sz \in SizePairs(mode), feather \in BOOLEAN, ub \in UbOutcomes,
          idx \in DonorPicks(mode) :
       \E label_mix \in (IF feather THEN LabelMixes(mode) ELSE {1}),
          feather_dist \in (IF feather THEN {0, 1} ELSE {0}) :
          \E ph \in OrDummy(CutmixPatchRange(Height(X, cl), sz[1], sz[2])),
             pw \in OrDummy(CutmixPatchRange(Width(X, cl), sz[1], sz[2])) :
             \E ox \in OrDummy(CutmixOriginRange(Width(X, cl),
                          CutmixPatchLen(pw, feather, feather_dist, Width(X, cl)))),
                oy \in OrDummy(CutmixOriginRange(Height(X, cl),
                          CutmixPatchLen(ph, feather, feather_dist, Height(X, cl)))) :
                /\ Commit("cutmix", g,
                          augmentation_cutmix(X, y, DonorOf(idx).X, DonorOf(idx).y, g[1], sz[1], sz[2], label_mix,
                                              feather, feather_dist, cl, g[2], ph, pw, ox, oy, ub),
                          [min_size |-> sz[1], max_size |-> sz[2], label_mix |-> label_mix,
                           feather |-> feather, feather_dist |-> feather_dist,
                           ph |-> ph, pw |-> pw, ox |-> ox, oy |-> oy, donor |-> idx])
                /\ NoK

Mixup ==
    /\ CanCall
    /\ ~IsNone(y)
    /\ \E g \in GatesEdge(mode), sz \in SizePairs(mode), label_mix \in LabelMixes(mode),
          t \in SubDraws(mode), idx \in DonorPicks(mode) :
          /\ Commit("mixup", g,
                    augmentation_mixup(X, y, DonorOf(idx).X, DonorOf(idx).y, sz[1], sz[2],
                                       label_mix, g[1], cl, g[2], t),
                    [min_size |-> sz[1], max_size |-> sz[2], label_mix |-> label_mix, t |-> t,
                     donor |-> idx])
          /\ NoK

\* The channel-last arrangement of a channel-first array.
channel_first_to_last(A) ==
    [dtype |-> A.dtype, shape |-> <<A.shape[2], A.shape[3], A.shape[1]>>,
     data |-> [i \in Idx(<<A.shape[2], A.shape[3], A.shape[1]>>) |-> A.data[<<i[3], i[1], i[2]>>]]]

\* __getitem__'s dispatch on a record's name: the names it maps to a function,
\* and the names a record may carry.
SupportedNames ==
    {"rotation", "mirror", "channel_scale", "noise", "contrast", "drop_pixel", "drop_channel",
     "blur", "blur_xy", "sharpen", "sharpen_xy", "misalign", "cutmix", "mixup"}
RecordNames == SupportedNames \cup {"flip", "Rotation", ""}

\* Variant of the message that leaves the name out.
UnsupportedMessageBare(name) == <<"Augmentation not supported.">>

\* f"Augmentation {aug['name']} not supported.", as its pieces.
UnsupportedMessage(name) == <<"Augmentation ", name, " not supported.">>

\* func is None: __getitem__ raises before it calls anything.
Unsupported ==
    /\ CanCall
    /\ \E name \in RecordNames \ SupportedNames :
          /\ mode = "pipe" => augmentations[step + 1] = name
          /\ last' = [name |-> name, chance |-> 0, u |-> 0, branch |-> "none",
                     err |-> "ValueError", wrapped |-> FALSE, draws |-> <<>>,
                     p |-> [message |-> UnsupportedMessage(name)]]
    /\ step' = step + 1
    /\ UNCHANGED <<X, y, src, orig, cl, mode, ksum, sure, x_train, y_train, view, augmentations, callback, output_is_channel_last, phase, picked>>
    /\ UNCHANGED utils

\* The dataset's callback in the runs, a user function: it reverses the last
\* axis of the feature and leaves the label.
ReverseLastAxis(A) ==
    [A EXCEPT !.data = [i \in Idx(A.shape) |-> A.data[<<i[1], i[2], A.shape[3] - 1 - i[3]>>]]]

\* if self.callback is not None: x, y = self.callback(x, y), after the loop.
Callback ==
    /\ mode = "pipe" /\ phase = "aug" /\ last.err = "none"
    /\ step = Len(augmentations)
    /\ callback
    /\ X' = ReverseLastAxis(X)
    /\ phase' = "callback"
    /\ UNCHANGED <<y, src, orig, cl, mode, step, last, ksum, sure, x_train, y_train, view, augmentations, callback, output_is_channel_last, picked>>
    /\ UNCHANGED utils

\* The output layout conversion and the return.
Return ==
    /\ mode = "pipe" /\ last.err = "none"
    /\ step = Len(augmentations)
    /\ phase = (IF callback THEN "callback" ELSE "aug")
    /\ X' = IF output_is_channel_last THEN channel_first_to_last(X) ELSE X
    /\ y' = IF output_is_channel_last THEN channel_first_to_last(y) ELSE y
    /\ phase' = "done"
    /\ UNCHANGED <<src, orig, cl, mode, step, last, ksum, sure, x_train, y_train, view, augmentations, callback, output_is_channel_last, picked>>
    /\ UNCHANGED utils

\* gdal_utils.get_gdalwarp_ram_limit. The local `limit` starts at min_ram and
\* only the "v%" branch assigns it.
get_gdalwarp_ram_limit(limit_in_mb, total_ram_share_mb, dynamic_limit) ==
    LET is_str == limit_in_mb.kind # "int"
        limit_in_percentage == limit_in_mb.v
        in_range == ~(limit_in_percentage <= 0 \/ limit_in_percentage > 100)
        limit == IF limit_in_mb.kind = "percent" /\ in_range
                 THEN total_ram_share_mb * (1024 * 1024) ELSE min_ram
    IN  IF is_str /\ limit_in_mb.kind = "auto" THEN [ret |-> dynamic_limit, err |-> "none"]
        ELSE IF is_str /\ limit_in_mb.kind = "text" THEN [ret |-> 0, err |-> "ValueError"]
        ELSE IF is_str /\ ~in_range THEN [ret |-> 0, err |-> "ValueError"]
        ELSE IF is_str /\ limit > min_ram THEN [ret |-> limit, err |-> "none"]
        ELSE IF limit > min_ram THEN [ret |-> limit_in_mb.v * (1024 * 1024), err |-> "none"]
        ELSE [ret |-> min_ram, err |-> "none"]

GetGdalwarpRamLimit ==
    /\ mode = "ram"
    /\ gdal_call.state = "pending"
    /\ gdal_call' = [gdal_call EXCEPT
                       !.state = "returned",
                       !.out = get_gdalwarp_ram_limit(gdal_call.limit_in_mb,
                                   gdal_call.total_ram_share_mb, gdal_call.dynamic_limit)]
    /\ UNCHANGED <<augs, overfit, save_best>>

\* gdal_utils.to_band_list.
to_band_list(band_number, band_count) ==
    LET l == band_number.list
    IN  IF band_number.kind = "list"
        THEN IF Len(l) = 0 THEN [ret |-> <<>>, err |-> "ValueError"]
             ELSE IF \E j \in 1 .. Len(l) : l[j] > band_count - 1
                  THEN [ret |-> <<>>, err |-> "ValueError"]
             ELSE [ret |-> l, err |-> "none"]
        ELSE IF band_number.v = 0 - 1
             THEN [ret |-> [j \in 1 .. band_count |-> j - 1], err |-> "none"]
        ELSE IF band_number.v > band_count + 1 THEN [ret |-> <<>>, err |-> "ValueError"]
        ELSE [ret |-> <<band_number.v>>, err |-> "none"]

ToBandList ==
    /\ mode = "bands"
    /\ gdal_call.state = "pending"
    /\ gdal_call' = [gdal_call EXCEPT
                       !.state = "returned",
                       !.out = to_band_list(gdal_call.band_number, gdal_call.band_count)]
    /\ UNCHANGED <<augs, overfit, save_best>>

\* OverfitProtection.on_epoch_end's test (1.0 - ratio) > self.difference, with
\* ratio = loss / (val_loss + epsilon), cleared of the division (val_loss +
\* epsilon is positive).
Overfits(loss, val_loss, difference) ==
    Den * ((val_loss + epsilon) - loss) > difference * (val_loss + epsilon)

\* OverfitProtection.on_epoch_end, called by the training loop at the end of
\* each epoch until the model's stop_training is set.
OverfitProtection_on_epoch_end ==
    /\ mode = "overfit"
    /\ ~overfit.stop_training
    /\ overfit.epoch < MaxEpochs
    /\ \E loss \in Losses, val_loss \in Losses :
          LET epoch == overfit.epoch
              count == IF epoch < overfit.offset_start THEN overfit.count
                       ELSE IF Overfits(loss, val_loss, overfit.difference)
                            THEN overfit.count + 1
                       ELSE IF overfit.count # 0 THEN overfit.count - 1
                       ELSE overfit.count
          IN  overfit' = [overfit EXCEPT
                             !.count = count,
                             !.stop_training = @ \/ (epoch >= overfit.offset_start /\ count >= 3),
                             !.epoch = epoch + 1,
                             !.logs = [loss |-> loss, val_loss |-> val_loss],
                             !.before = overfit.count]
    /\ UNCHANGED <<augs, gdal_call, save_best>>

\* A comparison that also takes a value equal to best.
ImprovesOrTies(this_max, metric_value, best) ==
    IF this_max THEN metric_value >= best ELSE metric_value <= best

\* SaveBestModel.on_epoch_end's comparison of the epoch's value with best.
Improves(this_max, metric_value, best) ==
    IF this_max THEN metric_value > best ELSE metric_value < best

\* SaveBestModel.on_epoch_end.
SaveBestModel_on_epoch_end ==
    /\ mode = "best"
    /\ save_best.epoch < MaxBestEpochs
    /\ \E value \in MetricValues :
          LET metric_value == Abs(value)
              better == Improves(save_best.max, metric_value, save_best.best)
              best == IF better THEN metric_value ELSE save_best.best
          IN  save_best' = [save_best EXCEPT
                               !.best = best,
                               !.best_weights = IF better THEN <<save_best.epoch>> ELSE @,
                               !.epoch = @ + 1,
                               !.seen = Append(@, metric_value),
                               !.bests = Append(@, best)]
    /\ UNCHANGED <<augs, gdal_call, overfit>>

Next ==
    \/ Rotation \/ Mirror \/ Noise \/ ChannelScale \/ Contrast \/ DropPixel \/ DropChannel
    \/ Blur \/ BlurXY \/ Sharpen \/ SharpenXY \/ Misalign \/ Cutmix \/ Mixup

Spec == Init /\ [][Next]_vars
SpecSeq == InitSeq /\ [][Next \/ Unsupported]_vars
SpecRot == InitRot /\ [][Rotation]_vars
SpecMir == InitMir /\ [][Mirror]_vars
SpecGeo == InitGeo /\ [][Rotation \/ Mirror]_vars
SpecMix == InitMix /\ [][Mixup]_vars
SpecCut == InitCut /\ [][Cutmix]_vars
SpecMis == InitMis /\ [][Rotation \/ Mirror \/ BlurXY \/ SharpenXY \/ Cutmix \/ Mixup]_vars
SpecRam == InitRam /\ [][GetGdalwarpRamLimit]_vars
SpecBands == InitBands /\ [][ToBandList]_vars
SpecOverfit == InitOverfit /\ [][OverfitProtection_on_epoch_end]_vars
SpecBest == InitBest /\ [][SaveBestModel_on_epoch_end]_vars
SpecPipe == InitPipe /\ [][Rotation \/ Mirror \/ Mixup \/ Unsupported \/ Callback \/ Return]_vars

\* ------------------------------------------------------------------ claims
\* The state after one call on the pair the run started from.
Called(name) == step = 1 /\ last.name = name
Returned == step = 1 /\ last.err = "none"
ChannelCells(A, c) == {i \in Idx(A.shape) : ChanOf(i, cl) = c}
ChangedChannels == {c \in 0 .. Channels(orig.X, cl) - 1 :
                      \E i \in ChannelCells(orig.X, c) : X.data[i] # orig.X.data[i]}

HeldByFloat32(A) == \A i \in Idx(A.shape) : F32Round(A.data[i]) = A.data[i]

\* C1: every transform called with chance = 0 returns the feature and the label
\* value-identical to its inputs, for every gate draw u in [0, 1), u = 0 included.
C1_ChanceZeroIsNoop ==
    (step = 1 /\ last.chance = 0) => (X = orig.X /\ y = orig.y)

\* C2 as stated: a transform returns its inputs unchanged when u > p and runs
\* its body when u <= p; with chance = 1 no transform takes the early return.
C2_GateAsStated ==
    step = 1 =>
        /\ last.u > last.chance => (last.branch = "noop" /\ X = orig.X /\ y = orig.y)
        /\ last.u <= last.chance => last.branch = "body"

\* C2 as amended: a transform returns its inputs unchanged when u > p; when
\* u <= p it runs its body, except rotation and mirror called with k = 0, which
\* return their inputs unchanged for every draw and every chance.
C2_GateExceptKZero ==
    step = 1 =>
        /\ last.u > last.chance => (last.branch = "noop" /\ X = orig.X /\ y = orig.y)
        /\ last.u <= last.chance =>
              IF last.name \in {"rotation", "mirror"} /\ last.p.k = 0
              THEN last.branch = "noop" /\ X = orig.X /\ y = orig.y
              ELSE last.branch = "body"

\* A call with chance = 1 whose body ran on the highest draw.
C2_Witness ==
    /\ Called("mixup") /\ last.chance = Den /\ last.u = Den - 1
    /\ last.branch = "body" /\ last.err = "none" /\ X # orig.X

\* C3: whether the gate fires or not, the returned feature has the input
\* feature's dtype and the returned label the input label's; for an integer
\* dtype every returned value is in the type's range and no value wrapped
\* around (drop_pixel and drop_channel with any drop_value, label_mix = 7).
C3_DtypeInvariant ==
    Returned =>
        /\ X.dtype = orig.X.dtype
        /\ y.dtype = orig.y.dtype
        /\ X.dtype \in IntDtypes =>
              \A i \in Idx(X.shape) : InRange(X.data[i], X.dtype) /\ X.data[i] % Scale = 0
        /\ y.dtype \in IntDtypes =>
              \A i \in Idx(y.shape) : InRange(y.data[i], y.dtype) /\ y.data[i] % Scale = 0
        /\ ~last.wrapped

\* C4: from a pair of identical spatial extent (and a donor of that extent),
\* after any sequence of transforms, the feature and the label have identical
\* spatial extent.
C4_SpatialConsistency ==
    Spatial(X, cl) = Spatial(y, cl)

\* A rotation turned a non-square pair and a second transform ran on the
\* turned pair.
C4_Witness ==
    /\ mode = "seq" /\ step = 2 /\ last.err = "none" /\ last.branch = "body"
    /\ last.name = "noise"
    /\ Spatial(X, cl) # Spatial(orig.X, cl)

\* C5: cutmix without feathering, when the gate fires: every feature element
\* inside the patch [y0, y1) x [x0, x1) equals the donor's element at that
\* position and every element outside it equals the target's, in both layouts.
C5_CutmixPatchExact ==
    (Called("cutmix") /\ last.branch = "body" /\ last.err = "none" /\ ~last.p.feather) =>
        \A i \in Idx(X.shape) :
            X.data[i] =
                IF /\ last.p.oy <= RowOf(i, cl) /\ RowOf(i, cl) < last.p.oy + last.p.ph
                   /\ last.p.ox <= ColOf(i, cl) /\ ColOf(i, cl) < last.p.ox + last.p.pw
                THEN src.X.data[i]
                ELSE orig.X.data[i]

\* C6: cutmix with label_mix = 1 returns the target's label everywhere, with
\* and without feathering.  Stated for labels that float32 holds exactly, so
\* that the pass through float32 (C5) plays no part.
C6_CutmixKeepsTargetLabel ==
    (/\ Called("cutmix") /\ last.branch = "body" /\ last.err = "none"
     /\ last.p.label_mix = 1
     /\ HeldByFloat32(orig.y) /\ HeldByFloat32(src.y)) =>
        y = orig.y

\* C7: for every extent, every min_size <= max_size, every feather_dist and
\* feathering on or off, the draws of the patch are over non-empty ranges and
\* the patch lies inside the array: 0 <= x0 <= x1 <= width, 0 <= y0 <= y1 <= height.
C7_CutmixPatchFits ==
    (Called("cutmix") /\ last.branch = "body") =>
        /\ last.err # "ValueError"
        /\ LET x1 == last.p.ox + CutmixPatchLen(last.p.pw, last.p.feather,
                                                last.p.feather_dist, Width(orig.X, cl))
               y1 == last.p.oy + CutmixPatchLen(last.p.ph, last.p.feather,
                                                last.p.feather_dist, Height(orig.X, cl))
           IN  /\ 0 <= last.p.ox /\ last.p.ox <= x1 /\ x1 <= Width(orig.X, cl)
               /\ 0 <= last.p.oy /\ last.p.oy <= y1 /\ y1 <= Height(orig.X, cl)

\* C8: one call of drop_channel changes the values of at most one channel (and
\* leaves the label alone), whatever the chance, drop_probability, layout and
\* draws.
C8_DropChannelAtMostOne ==
    Called("drop_channel") => (Cardinality(ChangedChannels) <= 1 /\ y = orig.y)

\* A call that dropped one channel of a two-channel feature.
C8_Witness ==
    /\ Called("drop_channel") /\ Channels(orig.X, cl) = 2
    /\ Cardinality(ChangedChannels) = 1

\* C9: drop_channel with drop_probability = 1 and chance = 1: for every draw
\* the channel drawn holds drop_value in every element (as the array's dtype
\* stores it) and every other channel equals the input.
C9_DropChannelCertain ==
    (Called("drop_channel") /\ last.chance = Den /\ last.p.drop_probability = Den) =>
        /\ last.branch = "body"
        /\ last.p.ch \in 0 .. Channels(orig.X, cl) - 1
        /\ InRange(last.p.drop_value, X.dtype) => last.p.stored = last.p.drop_value
        /\ \A i \in Idx(X.shape) :
              X.data[i] = IF ChanOf(i, cl) = last.p.ch THEN last.p.stored ELSE orig.X.data[i]

\* The last of two channels was the one dropped, on the highest draws.
C9_Witness ==
    /\ Called("drop_channel") /\ last.chance = Den /\ last.u = Den - 1
    /\ last.p.drop_probability = Den /\ Channels(orig.X, cl) = 2 /\ last.p.ch = 1
    /\ \A c \in 0 .. 1 : last.p.tr[c] = Den - 1
    /\ ChangedChannels = {1}

\* C10: rotations with explicit k and chance = 1 whose k sum to a multiple of 4
\* (k = 1 four times) give back the original feature and label, in both layouts.
C10_RotationRoundTrip ==
    (mode = "rot" /\ step > 0 /\ sure /\ ksum = 0) => (X = orig.X /\ y = orig.y)

\* Four calls, the last with k = 1, on a non-square labelled pair.
C10_Witness ==
    /\ mode = "rot" /\ step = 4 /\ sure /\ ksum = 0 /\ last.p.k = 1
    /\ ~IsNone(y) /\ Height(orig.X, cl) # Width(orig.X, cl)
    /\ X = orig.X /\ y = orig.y

\* C11: with chance = 1, mirror k = 1 followed by mirror k = 2, and mirror
\* k = 2 followed by mirror k = 1, both give what one mirror with k = 3 gives,
\* for the feature and for the label, in both layouts.
C11_MirrorComposition ==
    (mode = "mir" /\ step = 2 /\ sure /\ ksum = 3 /\ last.p.k \in {1, 2}) =>
        LET both == augmentation_mirror(orig.X, orig.y, Den, 3, cl, Den - 1, 1)
        IN  X = both.X /\ y = both.y

\* Mirror k = 2 then mirror k = 1 on a labelled pair that the flips change.
C11_Witness ==
    /\ mode = "mir" /\ step = 2 /\ sure /\ ksum = 3 /\ last.p.k = 1
    /\ ~IsNone(y) /\ Height(orig.X, cl) = 2 /\ Width(orig.X, cl) = 2
    /\ X # orig.X /\ y # orig.y
    /\ X = mirror_arr(orig.X, 3, cl)

\* C12: one call of rotation or mirror transforms the label with exactly the k
\* it transforms the feature with (the one k drawn from {1, 2, 3} when k is
\* not given); with no label only the feature is transformed and None is
\* returned; k = 0 returns both inputs unchanged whatever the chance.
C12_SameKForLabel ==
    (mode = "geo" /\ step = 1) =>
        LET T(A, kk) == IF last.name = "rotation" THEN rotate_arr(A, kk, cl)
                        ELSE mirror_arr(A, kk, cl)
        IN  /\ last.branch = "body" =>
                  \E kk \in 1 .. 3 :
                     /\ kk = IF last.p.k = KNone THEN last.p.rk ELSE last.p.k
                     /\ X = T(orig.X, kk)
                     /\ y = IF IsNone(orig.y) THEN NoneArr ELSE T(orig.y, kk)
            /\ last.branch = "noop" => (X = orig.X /\ y = orig.y)
            /\ (last.u <= last.chance /\ last.p.k = 0) => last.branch = "noop"
            /\ IsNone(orig.y) => IsNone(y)

\* A rotation with k not given that drew k = 3 and turned feature and label.
C12_Witness ==
    /\ mode = "geo" /\ step = 1 /\ last.name = "rotation" /\ last.branch = "body"
    /\ last.p.k = KNone /\ last.p.rk = 3
    /\ ~IsNone(y) /\ Height(orig.X, cl) # Width(orig.X, cl)
    /\ X # orig.X /\ y = rotate_arr(orig.y, 3, cl)

\* lam * target + (1 - lam) * donor, element by element, in float32.
BlendOf(T, S, lam) ==
    [dtype |-> "float32", shape |-> T.shape,
     data |-> [i \in Idx(T.shape) |->
                 F32Round(F32Round(MulDiv(F32Round(T.data[i]), lam, Scale))
                          + F32Round(MulDiv(F32Round(S.data[i]), Scale - lam, Scale)))]]

\* C13: mixup with label_mix = 0, when the gate fires: the label returned is
\* lam * target label + (1 - lam) * donor label, fitted to the label's dtype,
\* with the one coefficient lam that blends the whole feature as
\* lam * target + (1 - lam) * donor.
C13_MixupLabelBlend ==
    (/\ mode = "mix" /\ Called("mixup") /\ last.branch = "body" /\ last.err = "none"
     /\ last.p.label_mix = 0) =>
        LET lam == MixupCoeff(last.p.min_size, last.p.max_size, last.p.t)
        IN  /\ X = _fit_data_to_dtype(BlendOf(orig.X, src.X, lam), orig.X.dtype)
            /\ y = _fit_data_to_dtype(BlendOf(orig.y, src.y, lam), orig.y.dtype)

\* A mixup of ramps with a coefficient strictly between 0 and 1: the label is
\* neither the target's nor the donor's.
C13_Witness ==
    /\ mode = "mix" /\ Called("mixup") /\ last.branch = "body" /\ last.err = "none"
    /\ last.p.label_mix = 0 /\ last.p.min_size = 0 /\ last.p.max_size = Den /\ last.p.t = Den - 1
    /\ MixupCoeff(0, Den, Den - 1) \in 1 .. Scale - 1
    /\ Height(orig.y, cl) = 2 /\ orig.y.data # src.y.data
    /\ \A i \in Idx(y.shape) : orig.y.data[i] < y.data[i] /\ y.data[i] < src.y.data[i]

\* C14: a target of constant 10 and a donor of constant 20, mixup with
\* min_size = max_size = 0.5 and chance = 1: for every draw of the coefficient
\* lam = 0.5 and the feature returned is 15 everywhere, for integer and
\* floating dtypes alike.
C14_MixupOfConstants ==
    (/\ mode = "mix" /\ Called("mixup") /\ last.chance = Den
     /\ Frac(last.p.min_size) = Scale \div 2 /\ Frac(last.p.max_size) = Scale \div 2
     /\ orig.X = ConstSample(orig.X.dtype, orig.X.shape, 10)
     /\ src.X = ConstSample(src.X.dtype, src.X.shape, 20)) =>
        /\ last.branch = "body" /\ last.err = "none"
        /\ MixupCoeff(last.p.min_size, last.p.max_size, last.p.t) = Scale \div 2
        /\ \A i \in Idx(X.shape) : X.data[i] = 15 * Scale

\* C15: mixup with label_mix = 5 and with label_mix = 6, when the gate fires,
\* return the same outputs for the same inputs and draws: the feature blend and,
\* as label, the target's label if lam >= 0.5 and the donor's label otherwise.
C15_MixupLabelOfLargerShare ==
    (/\ mode = "mix" /\ Called("mixup") /\ last.branch = "body" /\ last.err = "none"
     /\ last.p.label_mix \in {5, 6}) =>
        LET lam == MixupCoeff(last.p.min_size, last.p.max_size, last.p.t)
            other == augmentation_mixup(orig.X, orig.y, src.X, src.y, last.p.min_size,
                                        last.p.max_size, 11 - last.p.label_mix,
                                        last.chance, cl, last.u, last.p.t)
        IN  /\ other.X = X /\ other.y = y /\ other.err = "none"
            /\ y = IF lam >= Scale \div 2 THEN orig.y ELSE src.y

\* C16: when __getitem__ reaches a record whose name is none of the supported
\* transforms it raises an error whose message contains that name, and no
\* transform runs for the record: nothing is drawn and the pair is left as the
\* records before it made it.
C16_UnknownNameRaises ==
    [][(step' = step + 1 /\ last'.name \notin SupportedNames) =>
          /\ last'.err = "ValueError"
          /\ \E j \in 1 .. Len(last'.p.message) : last'.p.message[j] = last'.name
          /\ last'.branch = "none" /\ last'.draws = <<>>
          /\ X' = X /\ y' = y]_vars

\* A pipeline whose first record changed the feature and whose second record
\* carries the name "flip".
C16_Witness ==
    /\ mode = "seq" /\ step = 2 /\ last.name = "flip" /\ last.err = "ValueError"
    /\ last.p.message = <<"Augmentation ", "flip", " not supported.">>
    /\ X # orig.X

C18_BlurXYPaired ==
    (/\ step = 1 /\ last.name \in {"blur_xy", "sharpen_xy"} /\ last.err = "none"
     /\ HeldByFloat32(orig.X) /\ HeldByFloat32(orig.y)) =>
        LET kernel == IF last.name = "blur_xy" THEN _simple_blur_kernel_2d_3x3
                      ELSE _simple_unsharp_kernel_2d_3x3
            done(A) == _fit_data_to_dtype(ConvAll(A, cl, kernel, Frac(Den)), A.dtype)
        IN  \/ X = orig.X /\ y = orig.y
            \/ X = done(orig.X) /\ y = done(orig.y)

\* C19: every transform call, blur_xy and sharpen_xy and rotation and mirror
\* with k = 0 included, makes exactly one chance-gate draw, as its first draw,
\* whether the gate passes or fails; every other draw is a parameter draw, made
\* only when the gate has passed.
C19_OneGateDraw ==
    step = 1 =>
        /\ Len(last.draws) >= 1 /\ last.draws[1] = "gate"
        /\ Cardinality({j \in 1 .. Len(last.draws) : last.draws[j] = "gate"}) = 1
        /\ last.u > last.chance => Len(last.draws) = 1

\* C20: contrast, when the gate fires with magnitude a, maps every feature
\* element x of channel c to (x - mean_c) * (1 + a) + mean_c, mean_c the mean of
\* channel c, in both layouts and for every shape; the channel-first result is
\* the channel-last result of the same data and draws, transposed.
C20_ContrastPerChannel ==
    (Called("contrast") /\ last.branch = "body") =>
        LET x0 == AsFloat32(orig.X)
            a == MulDiv(Frac(last.p.ua), Frac(last.p.max_amount), Scale)
            cells(c) == {j \in Idx(orig.X.shape) : ChanOf(j, cl) = c}
            mean(c) == F32Round(SumData(x0, cells(c)) \div Cardinality(cells(c)))
            stretched == [x0 EXCEPT !.data = [i \in Idx(orig.X.shape) |->
                F32Round(MulDiv(x0.data[i] - mean(ChanOf(i, cl)), Scale + a, Scale)
                         + mean(ChanOf(i, cl)))]]
        IN  /\ last.err = "none"
            /\ X = _fit_data_to_dtype(stretched, orig.X.dtype)
            /\ ~cl => \E ub \in UbOutcomes :
                  LET r == augmentation_contrast(channel_first_to_last(orig.X), orig.y,
                               last.chance, last.p.max_amount, TRUE, last.u, last.p.ua, ub)
                  IN  r.err = "none" /\ r.X = channel_first_to_last(X)

\* C21: feathered cutmix, same data, draws and feather_dist in both layouts:
\* the blended region [y0, y1) x [x0, x1) is clamped to the spatial height and
\* width, never by the channel count, and the channel-first result is the
\* channel-last result transposed.
C21_FeatheredLayouts ==
    (/\ mode = "cut" /\ Called("cutmix") /\ last.branch = "body"
     /\ last.err \in {"none", "oob"} /\ last.p.feather) =>
        LET fd == last.p.feather_dist
            height == Height(orig.X, cl)
            width == Width(orig.X, cl)
            x0 == last.p.ox
            y0 == last.p.oy
            x1 == x0 + CutmixPatchLen(last.p.pw, TRUE, fd, width)
            y1 == y0 + CutmixPatchLen(last.p.ph, TRUE, fd, height)
            inside(i) == /\ Max2(0, y0 - fd) <= RowOf(i, cl)
                         /\ RowOf(i, cl) < Min2(y1 + 1 + fd, height)
                         /\ Max2(0, x0 - fd) <= ColOf(i, cl)
                         /\ ColOf(i, cl) < Min2(x1 + 1 + fd, width)
            wt(i) == _feather_box_2d(RowOf(i, cl), ColOf(i, cl), x0, x1, y0, y1, fd)
            xt == AsFloat32(orig.X)
            blended == [xt EXCEPT !.data = [i \in Idx(orig.X.shape) |->
                IF inside(i)
                THEN F32Round(MulDiv(xt.data[i], wt(i), Scale)
                              + MulDiv(src.X.data[i], Scale - wt(i), Scale))
                ELSE xt.data[i]]]
        IN  /\ last.err = "none"
            /\ X = _fit_data_to_dtype(blended, orig.X.dtype)
            /\ ~cl => \E ub \in UbOutcomes :
                  LET r == augmentation_cutmix(channel_first_to_last(orig.X),
                               channel_first_to_last(orig.y), channel_first_to_last(src.X),
                               channel_first_to_last(src.y), last.chance, last.p.min_size,
                               last.p.max_size, last.p.label_mix, TRUE, fd, TRUE, last.u,
                               last.p.ph, last.p.pw, last.p.ox, last.p.oy, ub)
                  IN  /\ r.err = "none"
                      /\ r.X = channel_first_to_last(X)
                      /\ r.y = channel_first_to_last(y)

\* C22: feathered cutmix, for every label_mix in 0 .. 7: the feature and label
\* elements outside the patch expanded by feather_dist pixels on each side
\* (clamped to the array) equal the target's; inside it the label follows the
\* policy (2: donor, 3: elementwise maximum, 4: elementwise minimum, 7: sum).
\* The expanded patch is taken at its widest reading, the placed box
\* [y0, y1) x [x0, x1) with feather_dist more pixels on each side; stated for the
\* channel-last layout and arrays that float32 holds exactly, so that the
\* layouts (C21) and the pass through float32 (C5) play no part.
C22_FeatheredFrame ==
    (/\ mode = "cut" /\ Called("cutmix") /\ last.branch = "body" /\ last.err = "none"
     /\ last.p.feather /\ cl
     /\ HeldByFloat32(orig.X) /\ HeldByFloat32(orig.y)
     /\ HeldByFloat32(src.X) /\ HeldByFloat32(src.y)) =>
        LET fd == last.p.feather_dist
            x0 == last.p.ox
            y0 == last.p.oy
            x1 == x0 + CutmixPatchLen(last.p.pw, TRUE, fd, Width(orig.X, cl))
            y1 == y0 + CutmixPatchLen(last.p.ph, TRUE, fd, Height(orig.X, cl))
            inside(i) == /\ Max2(0, y0 - fd) <= RowOf(i, cl)
                         /\ RowOf(i, cl) < Min2(y1 + fd, Height(orig.X, cl))
                         /\ Max2(0, x0 - fd) <= ColOf(i, cl)
                         /\ ColOf(i, cl) < Min2(x1 + fd, Width(orig.X, cl))
            fitted(v) == FitValue(F32Round(v), orig.y.dtype)
        IN  /\ \A i \in Idx(X.shape) : ~inside(i) => X.data[i] = orig.X.data[i]
            /\ \A i \in Idx(y.shape) :
                  IF ~inside(i) THEN y.data[i] = orig.y.data[i]
                  ELSE /\ last.p.label_mix = 2 => y.data[i] = fitted(src.y.data[i])
                       /\ last.p.label_mix = 3 =>
                             y.data[i] = fitted(Max2(orig.y.data[i], src.y.data[i]))
                       /\ last.p.label_mix = 4 =>
                             y.data[i] = fitted(Min2(orig.y.data[i], src.y.data[i]))
                       /\ last.p.label_mix = 7 =>
                             y.data[i] = fitted(orig.y.data[i] + src.y.data[i])

\* The pair after the first n records of the pipeline, applied in list order to
\* the stored item, each to the pair the one before returned, with the donors
\* picked from the stored dataset.
RECURSIVE ApplyRecords(_)
ApplyRecords(n) ==
    IF n = 0 THEN [X |-> x_train.item, y |-> y_train.item]
    ELSE LET P == ApplyRecords(n - 1)
             r == IF augmentations[n] = "rotation"
                  THEN augmentation_rotation(P.X, P.y, Den, 1, FALSE, 0, 1)
                  ELSE IF augmentations[n] = "mirror"
                  THEN augmentation_mirror(P.X, P.y, Den, 1, FALSE, 0, 1)
                  ELSE augmentation_mixup(P.X, P.y, x_train[picked[n]], y_train[picked[n]],
                                          Den \div 2, Den \div 2, 0, Den, FALSE, 0, 0)
         IN  [X |-> r.X, y |-> r.y]

\* C23: __getitem__ applies the records strictly in list order, each transform
\* to the pair the one before returned; cutmix and mixup get a donor taken from
\* the stored, unaugmented dataset; the callback runs after all records and the
\* output layout conversion last.
C23_PipelineOrder ==
    (mode = "pipe" /\ last.err = "none") =>
        LET P == ApplyRecords(step)
        IN  /\ phase = "aug" => (X = P.X /\ y = P.y)
            /\ phase = "callback" =>
                  /\ step = Len(augmentations) /\ callback
                  /\ X = ReverseLastAxis(P.X) /\ y = P.y
            /\ phase = "done" =>
                  LET Q == [X |-> IF callback THEN ReverseLastAxis(P.X) ELSE P.X, y |-> P.y]
                  IN  /\ step = Len(augmentations)
                      /\ X = IF output_is_channel_last THEN channel_first_to_last(Q.X) ELSE Q.X
                      /\ y = IF output_is_channel_last THEN channel_first_to_last(Q.y) ELSE Q.y

\* A run that rotated the item, mixed it with the stored item itself, ran the
\* callback and returned the pair in channel-last layout.
C23_Witness ==
    /\ mode = "pipe" /\ phase = "done" /\ last.err = "none"
    /\ augmentations = <<"rotation", "mixup">> /\ picked = <<"none", "item">>
    /\ callback /\ output_is_channel_last
    /\ X.shape = <<MaxH, MaxW, 1>>
    /\ X # channel_first_to_last(ReverseLastAxis(rotate_arr(orig.X, 1, FALSE)))
    /\ X # channel_first_to_last(ReverseLastAxis(orig.X))

\* C24: no iteration of a parallel loop reads or writes what another iteration
\* writes, so for a fixed stream of random draws the result of a call does not
\* depend on the order in which the iterations run; for channel_scale, whose
\* loop draws each channel's factor: the result is that of the iterations run
\* in sequence, channel 0 first.
C24_LoopOrderFree ==
    (Called("channel_scale") /\ last.branch = "body" /\ last.err = "none") =>
        LET insequence == [ch \in 0 .. Channels(orig.X, cl) - 1 |-> last.p.stream[ch + 1]]
        IN  X = augmentation_channel_scale(orig.X, orig.y, last.chance, last.p.max_amount,
                                           last.p.additive, cl, last.u, last.p.ua,
                                           insequence).X

\* C25: a joint transform (rotation, mirror, blur_xy, sharpen_xy, cutmix,
\* mixup) whose body runs on a feature and label, or a target and donor, with
\* disagreeing spatial extents fails with an error and returns nothing.
C25_MismatchFails ==
    LET extents(A) == <<Height(A, cl), Width(A, cl)>>
    IN  (/\ mode = "mis" /\ step = 1 /\ last.branch = "body"
         /\ \/ extents(orig.X) # extents(orig.y)
            \/ /\ last.name \in {"cutmix", "mixup"}
               /\ (extents(src.X) # extents(orig.X) \/ extents(src.y) # extents(orig.y))) =>
            last.err # "none"

\* C27: the height (width) of the cutmix patch, before any feather expansion, is
\* drawn from the closed range int(min_size * height) .. int(max_size * height)
\* (width likewise), upper endpoint included; with min_size = max_size the
\* patch size is that single value.
C27_PatchSizeClosedRange ==
    (/\ mode = "cut" /\ Called("cutmix") /\ last.u <= last.chance
     /\ last.p.min_size = last.p.max_size) =>
        /\ last.err # "ValueError"
        /\ last.p.ph = IntOfShare(Height(orig.X, cl), last.p.min_size)
        /\ last.p.pw = IntOfShare(Width(orig.X, cl), last.p.min_size)

\* C26: get_gdalwarp_ram_limit, given an integer number of MB, returns
\* limit_in_mb * 1024^2 bytes whenever that exceeds the 1,000,000-byte minimum
\* and the minimum otherwise, so never less than 1,000,000.
C26_RamLimitInBytes ==
    (/\ mode = "ram" /\ gdal_call.state = "returned"
     /\ gdal_call.limit_in_mb.kind = "int") =>
        LET asked == gdal_call.limit_in_mb.v * (1024 * 1024)
        IN  /\ gdal_call.out.err = "none"
            /\ gdal_call.out.ret = (IF asked > min_ram THEN asked ELSE min_ram)
            /\ gdal_call.out.ret >= min_ram

\* C28: to_band_list, asked for -1 (all bands), one band number or a list of
\* band numbers (none of them negative), returns only band numbers b with
\* 0 <= b <= band_count - 1, and a request for a band beyond band_count - 1
\* raises ValueError, whether the request is a single number or a list.
C28_BandsWithinCount ==
    (/\ mode = "bands" /\ gdal_call.state = "returned"
     /\ \/ gdal_call.band_number.kind = "list"
        \/ gdal_call.band_number.v >= 0 - 1
     /\ \A j \in 1 .. Len(gdal_call.band_number.list) : gdal_call.band_number.list[j] >= 0) =>
        LET bn == gdal_call.band_number
            asked == IF bn.kind = "list" THEN {bn.list[j] : j \in 1 .. Len(bn.list)}
                     ELSE IF bn.v = 0 - 1 THEN {} ELSE {bn.v}
            out == gdal_call.out
        IN  /\ out.err = "none" =>
                   \A j \in 1 .. Len(out.ret) :
                       0 <= out.ret[j] /\ out.ret[j] <= gdal_call.band_count - 1
            /\ (\E b \in asked : b > gdal_call.band_count - 1) => out.err = "ValueError"
\* C29: after each epoch of an OverfitProtection callback the counter is not
\* negative; it is the counter before the epoch when the epoch is before
\* offset_start, one more when 1 - loss/(val_loss + eps) > difference, and one
\* less (but not below 0) otherwise; and the model's stop_training is set
\* exactly when the counter has reached patience.
C29_CounterAndStop ==
    (mode = "overfit" /\ overfit.epoch > 0) =>
        LET epoch == overfit.epoch - 1
        IN  /\ overfit.count >= 0
            /\ epoch < overfit.offset_start => overfit.count = overfit.before
            /\ epoch >= overfit.offset_start =>
                   overfit.count =
                       IF Overfits(overfit.logs.loss, overfit.logs.val_loss, overfit.difference)
                       THEN overfit.before + 1 ELSE Max2(overfit.before - 1, 0)
            /\ overfit.stop_training <=> overfit.count >= overfit.patience

\* C30: after each epoch of a SaveBestModel callback, best is the minimum
\* (the maximum when this_max) of the absolute metric values seen, best has
\* not got worse since the epoch before, and best_weights are the weights of
\* the first epoch whose value is the current best.
C30_BestAndItsWeights ==
    (mode = "best" /\ save_best.epoch > 0) =>
        LET seen == save_best.seen
            n == Len(seen)
            first == CHOOSE e \in 1 .. n :
                        /\ seen[e] = save_best.best
                        /\ \A d \in 1 .. e - 1 : seen[d] # save_best.best
        IN  /\ \E e \in 1 .. n : seen[e] = save_best.best
            /\ \A e \in 1 .. n :
                   IF save_best.max THEN seen[e] <= save_best.best
                   ELSE seen[e] >= save_best.best
            /\ \A e \in 2 .. n :
                   IF save_best.max THEN save_best.bests[e] >= save_best.bests[e - 1]
                   ELSE save_best.bests[e] <= save_best.bests[e - 1]
            /\ save_best.best_weights = <<first - 1>>
\* C30 (amended): as above, except that best_weights are the weights of the
\* first epoch whose value is the current best only once some value has been
\* better than the best the callback was constructed with; while every value
\* seen is that initial best (infinity), best_weights is still not set.
C30_BestAndFirstImprovement ==
    (mode = "best" /\ save_best.epoch > 0) =>
        LET seen == save_best.seen
            n == Len(seen)
            initial == IF save_best.max THEN 0 - Infinity ELSE Infinity
            first == CHOOSE e \in 1 .. n :
                        /\ seen[e] = save_best.best
                        /\ \A d \in 1 .. e - 1 : seen[d] # save_best.best
        IN  /\ \E e \in 1 .. n : seen[e] = save_best.best
            /\ \A e \in 1 .. n :
                   IF save_best.max THEN seen[e] <= save_best.best
                   ELSE seen[e] >= save_best.best
            /\ \A e \in 2 .. n :
                   IF save_best.max THEN save_best.bests[e] >= save_best.bests[e - 1]
                   ELSE save_best.bests[e] <= save_best.bests[e - 1]
            /\ save_best.best_weights =
                   (IF save_best.best = initial THEN <<>> ELSE <<first - 1>>)

\* Three epochs whose second and third value tie for the best: the weights
\* kept are the second epoch's.
C30_Witness ==
    /\ mode = "best" /\ ~save_best.max /\ save_best.epoch = 3
    /\ save_best.seen[1] > save_best.seen[2]
    /\ save_best.seen[2] = save_best.seen[3]
    /\ save_best.best = save_best.seen[2]
    /\ save_best.best_weights = <<1>>
====
